---- MODULE Spec2Model ----
(***************************************************************************)
(* Model of the addon registry command line tool.                          *)
(*                                                                         *)
(*   SpecBuild    : build_images followed by upload_images                 *)
(*                  (src/src/docker_registry.rs)                           *)
(*   SpecValidate : open_validate_addons_file (src/src/dto/addons.rs)      *)
(*   SpecLogin    : perform_login (src/src/login.rs)                       *)
(*   SpecRegistry : addon_registry (src/src/registry.rs)                   *)
(*   SpecPublish  : post_to_registry (src/src/registry.rs)                 *)
(*   SpecDrain    : build_images and upload_images with the tasks that     *)
(*                  copy the output of a child to the progress bar         *)
(*   SpecLoginFair: SpecLogin in which perform_login keeps running         *)
(*   SpecMain     : main (src/src/main.rs)                                 *)
(*   SpecOperations: the runs of SpecBuild and those of SpecPublish        *)
(*                                                                         *)
(* Text is modelled as a sequence of one-character strings, so that the    *)
(* splitting and number parsing of the validator are computed, not         *)
(* assumed.  External commands are assumed to start, their output to be    *)
(* text, and HTTP bodies to follow the schema of their endpoint; exit      *)
(* statuses, HTTP statuses, transport failures, what inspect prints, the   *)
(* state of the cache file, the outcome of writing it and the clock are    *)
(* free inputs.                                                            *)
(***************************************************************************)
EXTENDS Integers, Sequences, FiniteSets, TLC

VARIABLES
    \* ---- build / push (docker_registry.rs)
    targets,     \* the Vec<BuildInstruction> handed to build_images/upload_images
    targets0,    \* history: the list as it was handed in
    bpc,         \* position of the main flow: "build", "upload", "done"
    idx,         \* 1-based index of the target of the current loop iteration
    child,       \* the external child the main flow blocks on, or NoChild
    invoked,     \* history: external commands started, in order
    exited,      \* history: external commands finished, with their exit status
    \* ---- manifest validation (dto/addons.rs)
    manifest,    \* the parsed AddonFileEntry (services map)
    vpc,         \* "parsed" before the checks, "validated" after
    vorder,      \* the order in which the HashMap of services was visited
    vresult,     \* Ok or the first error
    \* ---- login (login.rs)
    lpc,         \* position of perform_login
    sessionFile, \* content of the .ohx_login file
    cached,      \* the session perform_login read from the file, or NoSession
    fileWrites,  \* history: number of times the session file was written
    now,         \* chrono::Utc::now().timestamp()
    deadline,    \* local expires_in: the instant the device code expires
    diff,        \* local diff of the current poll iteration
    requests,    \* history: HTTP requests sent, in order
    responses,   \* history: what each answered token request of the poll loop got
    tokenResponse, \* the OAuthTokenResponse of the device_code grant
    lresult,     \* what perform_login returned
    \* ---- registry cache (registry.rs, addon_registry)
    rpc,         \* position of addon_registry
    cacheFile,   \* the .ohx_registry_cache file
    cacheFile0,  \* history: the cache file when addon_registry was called
    fetchLog,    \* history: the outcome of every live fetch, in order
    rresult,     \* what addon_registry returned
    \* ---- publish (registry.rs, post_to_registry)
    ppc,         \* position of post_to_registry
    input_file,  \* the validated AddonFileEntry handed to post_to_registry
    posts,       \* history: the records POSTed to the catalog, in order
    postAnswers, \* history: what each POST was answered, in order
    presult,     \* what post_to_registry returned
    \* ---- progress indicator and output-drain tasks (docker_registry.rs)
    drains,      \* the drain tasks spawned on the runtime and not yet ended
    pb,          \* the progress bars of build_images and upload_images
    lateWrites,  \* history: drain tasks that wrote a bar after their child exited
    \* ---- the run of the tool (main.rs)
    mpc,         \* position of main
    mopt,        \* the command line options validate_only and login_only
    mlog         \* history: what main did, in order: validation, the read of
                 \* the session file, requests to the OAuth server, the look
                 \* at the registry cache, the fetch of the registry

buildVars == <<targets, targets0, bpc, idx, child, invoked, exited>>
validateVars == <<manifest, vpc, vorder, vresult>>
loginVars == <<lpc, sessionFile, cached, fileWrites, now, deadline, diff,
               requests, responses, tokenResponse, lresult>>
registryVars == <<rpc, cacheFile, cacheFile0, fetchLog, rresult>>
publishVars == <<ppc, input_file, posts, postAnswers, presult>>
drainVars == <<drains, pb, lateWrites>>
mainVars == <<mpc, mopt, mlog>>
vars == <<buildVars, validateVars, loginVars, registryVars, publishVars, drainVars,
          mainVars>>

(***************************************************************************)
(* Bounds of the model                                                     *)
(***************************************************************************)
MaxTargets == 2
MaxLifetime == 4

(***************************************************************************)
(* Build and push orchestration                                            *)
(***************************************************************************)
NoChild == [tool |-> "none", target |-> 0]

ArchList == <<"amd64", "aarch64", "armv7l">>

\* struct BuildInstruction: filename, arch, image_name, build, uploaded, image_size
BuildInstruction(i, upl, size) ==
    [filename   |-> <<"Dockerfile", ArchList[i]>>,
     arch       |-> ArchList[i],
     image_name |-> <<"addon", ArchList[i]>>,
     build      |-> FALSE,
     uploaded   |-> upl,
     image_size |-> size]

\* sizes a target may carry when it is handed in, and sizes inspect may print
InitialSizes == {0, 50}
InspectSizes == {100}

\* outcome of `podman image inspect`: the command cannot be run, its output
\* is not an integer, or it prints an integer
InspectResults ==
    {[kind |-> "failed", size |-> 0], [kind |-> "garbage", size |-> 0]}
    \cup {[kind |-> "size", size |-> s] : s \in InspectSizes}

TargetLists ==
    UNION {[1..n -> BOOLEAN \X InitialSizes] : n \in 0..MaxTargets}

InitBuildVars ==
    /\ \E f \in TargetLists :
          targets = [i \in DOMAIN f |-> BuildInstruction(i, f[i][1], f[i][2])]
    /\ targets0 = targets
    /\ bpc = "build"
    /\ idx = 1
    /\ child = NoChild
    /\ invoked = <<>>
    /\ exited = <<>>

IdleBuildVars ==
    /\ targets = <<>>
    /\ targets0 = <<>>
    /\ bpc = "idle"
    /\ idx = 1
    /\ child = NoChild
    /\ invoked = <<>>
    /\ exited = <<>>

\* a recording that resets the size when inspect gives no integer
RecordSizeResetOnFailure(old, insp) == IF insp.kind = "size" THEN insp.size ELSE 0

\* the size build_images records after inspect
RecordSize(old, insp) == IF insp.kind = "size" THEN insp.size ELSE old

\* a build loop that gives up at the first failed build
NextBuildIndexStopOnFailure(i, status) == IF status THEN i + 1 ELSE Len(targets) + 1

\* the loop index after an iteration of build_images: the loop has no break
NextBuildIndex(i, status) == i + 1

\* a loop that starts the next build without blocking on the current child
BuildSpawnWithoutBlocking ==
    /\ bpc = "build"
    /\ idx <= Len(targets)
    /\ Len(invoked) < 2 * Len(targets)
    /\ child' = [tool |-> "build", target |-> idx]
    /\ invoked' = Append(invoked, [tool |-> "build", target |-> idx])
    /\ UNCHANGED <<targets, targets0, bpc, idx, exited>>

\* build_images: start of an iteration, `podman build` is spawned
BuildSpawn ==
    /\ bpc = "build"
    /\ child = NoChild
    /\ idx <= Len(targets)
    /\ child' = [tool |-> "build", target |-> idx]
    /\ invoked' = Append(invoked, [tool |-> "build", target |-> idx])
    /\ UNCHANGED <<targets, targets0, bpc, idx, exited>>

\* build_images: block_on(child) returns, the flag is recorded, inspect is
\* run and its size recorded, the loop advances
BuildFinish ==
    /\ bpc = "build"
    /\ child.tool = "build"
    /\ \E status \in BOOLEAN, insp \in InspectResults :
          /\ targets' = [targets EXCEPT
                            ![idx].build = status,
                            ![idx].image_size = RecordSize(@, insp)]
          /\ exited' = Append(exited, [tool |-> "build", target |-> idx,
                                       ok |-> status, insp |-> insp])
          /\ idx' = NextBuildIndex(idx, status)
    /\ invoked' = Append(invoked, [tool |-> "inspect", target |-> idx])
    /\ child' = NoChild
    /\ UNCHANGED <<targets0, bpc>>

\* build_images returns; main goes on to upload_images
BuildReturn ==
    /\ bpc = "build"
    /\ child = NoChild
    /\ idx > Len(targets)
    /\ bpc' = "upload"
    /\ idx' = 1
    /\ UNCHANGED <<targets, targets0, child, invoked, exited>>

\* an upload loop that pushes the targets that were not built
ShouldPushUnbuilt(t) == ~t.build

\* an upload loop that does not look at the build flag
ShouldPushAlways(t) == TRUE

\* whether upload_images pushes the target
ShouldPush(t) == t.build

\* upload_images: a target that was not built is skipped
UploadSkip ==
    /\ bpc = "upload"
    /\ child = NoChild
    /\ idx <= Len(targets)
    /\ ~ShouldPush(targets[idx])
    /\ idx' = idx + 1
    /\ UNCHANGED <<targets, targets0, bpc, child, invoked, exited>>

\* upload_images: `podman push` is spawned
UploadSpawn ==
    /\ bpc = "upload"
    /\ child = NoChild
    /\ idx <= Len(targets)
    /\ ShouldPush(targets[idx])
    /\ child' = [tool |-> "push", target |-> idx]
    /\ invoked' = Append(invoked, [tool |-> "push", target |-> idx])
    /\ UNCHANGED <<targets, targets0, bpc, idx, exited>>

\* a push that forgets the size of an image it could not push
UploadFinishForgetsSize ==
    /\ bpc = "upload"
    /\ child.tool = "push"
    /\ \E status \in BOOLEAN :
          /\ targets' = [targets EXCEPT
                            ![idx].uploaded = status,
                            ![idx].image_size = IF status THEN @ ELSE 0]
          /\ exited' = Append(exited, [tool |-> "push", target |-> idx,
                                       ok |-> status,
                                       insp |-> [kind |-> "none", size |-> 0]])
    /\ idx' = idx + 1
    /\ child' = NoChild
    /\ UNCHANGED <<targets0, bpc, invoked>>

\* upload_images: block_on(child) returns, the flag is recorded
UploadFinish ==
    /\ bpc = "upload"
    /\ child.tool = "push"
    /\ \E status \in BOOLEAN :
          /\ targets' = [targets EXCEPT ![idx].uploaded = status]
          /\ exited' = Append(exited, [tool |-> "push", target |-> idx,
                                       ok |-> status,
                                       insp |-> [kind |-> "none", size |-> 0]])
    /\ idx' = idx + 1
    /\ child' = NoChild
    /\ UNCHANGED <<targets0, bpc, invoked>>

\* upload_images returns
UploadReturn ==
    /\ bpc = "upload"
    /\ child = NoChild
    /\ idx > Len(targets)
    /\ bpc' = "done"
    /\ UNCHANGED <<targets, targets0, idx, child, invoked, exited>>

(***************************************************************************)
(* Manifest validation                                                     *)
(***************************************************************************)
Digits == {"0", "1", "2", "3", "4", "5", "6", "7", "8", "9"}
LowerLetters == {"a", "b", "c", "d", "e", "f", "g", "h", "i", "j", "k", "l",
                 "m", "n", "o", "p", "q", "r", "s", "t", "u", "v", "w", "x",
                 "y", "z"}

\* u16::MAX, the largest value parse::<u16>() accepts
U16Max == 65535
\* the first port that is not privileged
PrivilegedLimit == 1024

\* str::split on a one-character pattern: always at least one segment,
\* empty segments are kept
Split(s, c) ==
    LET RECURSIVE go(_, _, _)
        go(i, cur, acc) ==
            IF i > Len(s) THEN Append(acc, cur)
            ELSE IF s[i] = c THEN go(i + 1, <<>>, Append(acc, cur))
            ELSE go(i + 1, Append(cur, s[i]), acc)
    IN go(1, <<>>, <<>>)

DigitValue(c) ==
    CASE c = "0" -> 0 [] c = "1" -> 1 [] c = "2" -> 2 [] c = "3" -> 3
      [] c = "4" -> 4 [] c = "5" -> 5 [] c = "6" -> 6 [] c = "7" -> 7
      [] c = "8" -> 8 [] c = "9" -> 9

AllIn(s, cs) == \A i \in 1..Len(s) : s[i] \in cs

RECURSIVE DecimalValue(_)
DecimalValue(s) ==
    IF Len(s) = 0 THEN 0
    ELSE 10 * DecimalValue(SubSeq(s, 1, Len(s) - 1)) + DigitValue(s[Len(s)])

\* str::parse::<u16>(): an optional '+', then one or more decimal digits,
\* the value at most u16::MAX.  ParseError (-1) otherwise.
ParseError == -1
ParseU16(s) ==
    LET body == IF Len(s) > 0 /\ s[1] = "+" THEN Tail(s) ELSE s
    IN IF Len(body) = 0 \/ ~AllIn(body, Digits) THEN ParseError
       ELSE IF DecimalValue(body) > U16Max THEN ParseError
       ELSE DecimalValue(body)

\* Regex ^[^:]*([:]\d+)?$
pattern_registry(s) ==
    LET parts == Split(s, ":")
    IN \/ Len(parts) = 1
       \/ Len(parts) = 2 /\ Len(parts[2]) > 0 /\ AllIn(parts[2], Digits)

\* Regex ^[_\-a-z0-9]+(:[a-z0-9]+)?$
pattern_image_name(s) ==
    LET parts == Split(s, ":")
        nameOk(n) == Len(n) > 0 /\ AllIn(n, LowerLetters \cup Digits \cup {"_", "-"})
        tagOk(t) == Len(t) > 0 /\ AllIn(t, LowerLetters \cup Digits)
    IN \/ Len(parts) = 1 /\ nameOk(parts[1])
       \/ Len(parts) = 2 /\ nameOk(parts[1]) /\ tagOk(parts[2])

\* Result<AddonFileEntry, failure::Error>: the error keeps what the message
\* is formatted from, the kind of the violation, the service and the token
Ok == [ok |-> TRUE, kind |-> "none", service |-> "", token |-> <<>>]
Err(kind, service, token) ==
    [ok |-> FALSE, kind |-> kind, service |-> service, token |-> token]

\* the first error of a sequence of results, Ok if there is none
RECURSIVE FirstError(_)
FirstError(rs) ==
    IF Len(rs) = 0 THEN Ok
    ELSE IF ~Head(rs).ok THEN Head(rs)
    ELSE FirstError(Tail(rs))

\* Option<T>
None(dflt) == [some |-> FALSE, v |-> dflt]
Some(x) == [some |-> TRUE, v |-> x]

\* addon-permissions.json, the keys of the permission catalog
addon_permissions == {"NETWORK", "HW_ACCESS"}

\* the image reference check of a service
CheckImage(id, service) ==
    IF ~service.image.some THEN Ok
    ELSE LET service_image == service.image.v
             parts == Split(service_image, "/")
         IN IF Len(parts) = 2
            THEN IF ~pattern_registry(parts[1])
                 THEN Err("registry", id, service_image)
                 ELSE IF ~pattern_image_name(parts[2])
                      THEN Err("image", id, parts[2])
                      ELSE Ok
            ELSE IF ~pattern_image_name(parts[1])
                 THEN Err("image", id, parts[1])
                 ELSE Ok

\* the permission check of a service: mandatory first, then optional
CheckPermissions(id, service) ==
    IF ~service.permissions.some THEN Ok
    ELSE LET p == service.permissions.v
         IN FirstError(
              [i \in 1..Len(p.mandatory) |->
                  IF p.mandatory[i] \notin addon_permissions
                  THEN Err("mandatory", id, p.mandatory[i]) ELSE Ok]
              \o
              [i \in 1..Len(p.optional) |->
                  IF p.optional[i] \notin addon_permissions
                  THEN Err("optional", id, p.optional[i]) ELSE Ok])

ProtoTcp == <<"t", "c", "p">>
ProtoUdp == <<"u", "d", "p">>

\* the token that is checked as port positions once a protocol suffix was
\* found: the code rebinds `port` to the protocol
PortAfterProtocol(parts) == parts[2]

\* whether the bound at index i of a colon-separated position is compared
\* with the privileged limit: in_host_range is reset for every position and
\* set after the first bound of it
InHostRange(position, i) == i > 1

\* the bounds of one colon-separated position
CheckRange(id, position, ports_maybe_range) ==
    LET segments == Split(ports_maybe_range, "-")
    IN IF Len(segments) > 2 THEN Err("range", id, ports_maybe_range)
       ELSE FirstError(
              [i \in 1..Len(segments) |->
                  LET v == ParseU16(segments[i])
                  IN IF v = ParseError THEN Err("number", id, segments[i])
                     ELSE IF InHostRange(position, i) /\ v < PrivilegedLimit
                          THEN Err("privileged", id, segments[i])
                          ELSE Ok])

\* one port specification
CheckPort(id, port) ==
    LET parts == Split(port, "/")
        badProtocol == Len(parts) >= 2 /\ parts[2] # ProtoUdp /\ parts[2] # ProtoTcp
        rest == IF Len(parts) >= 2 THEN PortAfterProtocol(parts) ELSE port
        positions == Split(rest, ":")
    IN IF badProtocol THEN Err("protocol", id, port)
       ELSE IF Len(positions) > 2 THEN Err("colon", id, rest)
       ELSE FirstError([k \in 1..Len(positions) |-> CheckRange(id, k, positions[k])])

CheckPorts(id, service) ==
    IF ~service.ports.some THEN Ok
    ELSE FirstError([i \in 1..Len(service.ports.v) |-> CheckPort(id, service.ports.v[i])])

\* a validator that does not look the dependency up
DependsResolvedUnchecked(data, depends) == TRUE

\* whether a depends_on entry resolves
DependsResolved(data, depends) == depends \in DOMAIN data.services

CheckDependsOn(data, id, service) ==
    IF ~service.depends_on.some THEN Ok
    ELSE FirstError(
           [i \in 1..Len(service.depends_on.v) |->
               IF ~DependsResolved(data, service.depends_on.v[i])
               THEN Err("depends", id, service.depends_on.v[i]) ELSE Ok])

LogVolume == <<"l", "o", "g", "v", "o", "l", "u", "m", "e">>

CheckVolumes(id, service) ==
    IF ~service.volumes.some THEN Ok
    ELSE FirstError(
           [i \in 1..Len(service.volumes.v) |->
               IF Split(service.volumes.v[i], ":")[1] # LogVolume
               THEN Err("volume", id, service.volumes.v[i]) ELSE Ok])

\* a loop body that looks at the volumes before anything else
ValidateServiceVolumesFirst(data, id) ==
    LET service == data.services[id]
    IN FirstError(<<CheckVolumes(id, service),
                    CheckImage(id, service),
                    CheckPermissions(id, service),
                    CheckPorts(id, service),
                    CheckDependsOn(data, id, service)>>)

\* the body of the loop over the services: the checks in source order
ValidateService(data, id) ==
    LET service == data.services[id]
    IN FirstError(<<CheckImage(id, service),
                    CheckPermissions(id, service),
                    CheckPorts(id, service),
                    CheckDependsOn(data, id, service),
                    CheckVolumes(id, service)>>)

\* a validation whose loop is left after the first service it visits
open_validate_first_visited(data, order) ==
    IF DOMAIN data.services = {} THEN Err("empty", "", <<>>)
    ELSE ValidateService(data, order[1])

\* open_validate_addons_file on a parsed file; `order` is the order in which
\* the iteration over the HashMap yields the services
open_validate_addons_file(data, order) ==
    IF DOMAIN data.services = {} THEN Err("empty", "", <<>>)
    ELSE FirstError([k \in 1..Len(order) |-> ValidateService(data, order[k])])

\* the orders a HashMap of these keys can be iterated in
Orders(S) ==
    {o \in [1..Cardinality(S) -> S] : \A i, j \in 1..Cardinality(S) : o[i] = o[j] => i = j}

(***************************************************************************)
(* Manifests the validator is run on                                       *)
(***************************************************************************)
\* bounds of a port range: below, at and above the privileged limit, at and
\* above u16::MAX, not a number, empty
BoundTokens == {<<"8", "0">>, <<"1", "0", "2", "3">>, <<"1", "0", "2", "4">>, <<"8", "0", "8", "0">>,
                <<"6", "5", "5", "3", "5">>, <<"6", "5", "5", "3", "6">>, <<"x">>, <<>>}

\* a position: a bound, a range of two bounds, or (once) three segments
Positions ==
    BoundTokens
    \cup {a \o <<"-">> \o b : a \in BoundTokens, b \in BoundTokens}
    \cup {<<"8", "0", "8", "0", "-", "8", "0", "8", "1", "-", "8", "0", "8", "2">>}

\* the part before the protocol: one position, two, or (once) three
PortBodies ==
    Positions
    \cup {h \o <<":">> \o c : h \in Positions, c \in Positions}
    \cup {<<"8", "0", "8", "0", ":", "8", "0", "8", "1", ":", "8", "0", "8", "2">>}

ProtocolSuffixes == {ProtoTcp, ProtoUdp, <<"i", "p">>}

\* the port specifications of the documentation
ExamplePorts == {<<"8", "0", ":", "8", "0", "8", "0">>,
                 <<"8", "0", "8", "0", ":", "8", "0">>,
                 <<"2", "2">>,
                 <<"8", "0", "-", "9", "0">>,
                 <<"8", "0", "8", "0", "-", "8", "0", "9", "0", ":", "8", "0", "-", "9", "0">>,
                 <<"6", "0", "6", "0", ":", "6", "0", "6", "0", "/", "u", "d", "p">>}

PortStrings ==
    PortBodies \cup {b \o <<"/">> \o p : b \in PortBodies, p \in ProtocolSuffixes}
    \cup ExamplePorts

NoPermissions == [mandatory |-> <<>>, optional |-> <<>>]

\* struct AddonService, the fields the validator reads
EmptyService ==
    [image       |-> None(<<>>),
     permissions |-> None(NoPermissions),
     ports       |-> None(<<>>),
     depends_on  |-> None(<<>>),
     volumes     |-> None(<<>>)]

ServiceIds == {"api", "worker"}

ImageRefs == {<<"a", "p", "p">>, <<"m", "y", "_", "a", "p", "p", "-", "1", ":", "v", "2">>, <<"h", ":", "5", "/", "a", ":", "1">>, <<"h", ".", "i", "o", "/", "a">>,
              <<"A", "p", "p">>, <<"a", ":", "V">>, <<"h", ":", "x", "/", "a">>, <<"h", "/", "o", "/", "a">>,
              <<>>}

PermissionIds == {"NETWORK", "HW_ACCESS", "ROOT"}
PermissionLists == {<<>>} \cup {<<p>> : p \in PermissionIds}
PermissionChoices ==
    {[mandatory |-> m, optional |-> o] : m \in PermissionLists, o \in PermissionLists}

VolumeNames == {LogVolume, <<"l", "o", "g", "v", "o", "l", "u", "m", "e", ":", "/", "l">>, <<"d", "a", "t", "a", ":", "/", "d">>, <<"l", "o", "g", "v", "o", "l", "u", "m", "e", "s">>}
VolumeLists == {<<v>> : v \in VolumeNames} \cup {<<v, w>> : v \in VolumeNames, w \in VolumeNames}

DependsIds == ServiceIds \cup {"ghost", "phantom"}
DependsLists == {<<>>} \cup {<<d>> : d \in DependsIds}
                \cup {<<d, e>> : d \in DependsIds, e \in DependsIds}

OneService(service) == [services |-> ("api" :> service)]

\* one service, one port specification, every shape of it
ManifestsPorts ==
    {OneService([EmptyService EXCEPT !.ports = Some(<<p>>)]) : p \in PortStrings}

\* one service, one field set, every value of it
ManifestsFields ==
    {OneService([EmptyService EXCEPT !.image = Some(i)]) : i \in ImageRefs}
    \cup {OneService([EmptyService EXCEPT !.permissions = Some(p)]) : p \in PermissionChoices}
    \cup {OneService([EmptyService EXCEPT !.volumes = Some(v)]) : v \in VolumeLists}
    \cup {OneService([EmptyService EXCEPT !.depends_on = Some(d)]) : d \in DependsLists}

\* services that combine the fields, each field right or wrong
CrossServices ==
    [image       : {Some(<<"a", "p", "p">>), Some(<<"A", "p", "p">>)},
     permissions : {None(NoPermissions),
                    Some([mandatory |-> <<"NETWORK">>, optional |-> <<"ROOT">>])},
     ports       : {None(<<>>), Some(<<<<"8", "0", "8", "0">>, <<"x">>>>)},
     depends_on  : {None(<<>>), Some(<<"api">>), Some(<<"worker">>),
                    Some(<<"ghost">>), Some(<<"worker", "phantom">>)},
     volumes     : {None(<<>>), Some(<<<<"d", "a", "t", "a", ":", "/", "d">>>>)}]

\* up to two services, fields combined; the empty service map
ManifestsCross ==
    {[services |-> f] : f \in UNION {[ids -> CrossServices] : ids \in SUBSET ServiceIds}}

Manifests == ManifestsPorts \cup ManifestsFields \cup ManifestsCross

InitValidateVars ==
    /\ manifest \in Manifests
    /\ vpc = "parsed"
    /\ vorder = <<>>
    /\ vresult = Ok

IdleValidateVars ==
    /\ manifest = [services |-> <<>>]
    /\ vpc = "idle"
    /\ vorder = <<>>
    /\ vresult = Ok

\* open_validate_addons_file on the parsed manifest
Validate ==
    /\ vpc = "parsed"
    /\ \E order \in Orders(DOMAIN manifest.services) :
          /\ vorder' = order
          /\ vresult' = open_validate_addons_file(manifest, order)
    /\ vpc' = "validated"
    /\ UNCHANGED manifest

(***************************************************************************)
(* Login: cached session, silent refresh, device authorization flow        *)
(***************************************************************************)
\* thread::sleep(Duration::from_secs(2)) of the poll loop
PollSleep == 2
\* the safety margin taken off the lifetime of an access token
SafetyMargin == 10

\* seconds a request may take, on the whole-second clock
Latencies == {0, 1}
StartTimes == {100}
\* expires_in of a device code, as declared by /authorize
DeviceLifetimes == 1..MaxLifetime
\* expires_in of an access token, as declared by /token
TokenLifetimes == {60}

\* struct UserSession
UserSession(refresh, access, expires, id, email, name) ==
    [refresh_token |-> refresh, access_token |-> access,
     access_token_expires |-> expires,
     user_id |-> id, user_email |-> email, user_display_name |-> name]

BlankSession == UserSession(None(""), "", 0, "", "", "")
NoSession == [some |-> FALSE, v |-> BlankSession]

\* what the session file can hold when perform_login starts
StoredSessions ==
    {UserSession(r, "at_old", e, "uid", "mail", "name") :
        r \in {None(""), Some("rt_old")}, e \in {50, 500}}

FileMissing == [kind |-> "missing", session |-> BlankSession]
FileCorrupt == [kind |-> "corrupt", session |-> BlankSession]
FileOf(session) == [kind |-> "session", session |-> session]

SessionFiles == {FileMissing, FileCorrupt} \cup {FileOf(x) : x \in StoredSessions}

\* struct OAuthTokenResponse, the fields perform_login reads
NoToken == [access_token |-> "", expires_in |-> 0, refresh_token |-> None("")]
TokenBodies ==
    {[access_token |-> "at_new", expires_in |-> e, refresh_token |-> r] :
        e \in TokenLifetimes, r \in {None(""), Some("rt_new")}}

\* a response: status 0 stands for a transport failure (send() is Err)
Response(to, status, error, token, lifetime) ==
    [to |-> to, status |-> status, error |-> error, token |-> token,
     lifetime |-> lifetime]

TransportFailure(to) == Response(to, 0, "", NoToken, 0)

TokenResponses(to) ==
    {TransportFailure(to), Response(to, 500, "", NoToken, 0)}
    \cup {Response(to, 400, e, NoToken, 0) :
            e \in {"authorization_pending", "access_denied", "invalid_grant"}}
    \cup {Response(to, 200, "", t, 0) : t \in TokenBodies}

AuthorizeResponses ==
    {TransportFailure("authorize"),
     Response("authorize", 400, "invalid_client", NoToken, 0),
     Response("authorize", 500, "", NoToken, 0)}
    \cup {Response("authorize", 200, "", NoToken, l) : l \in DeviceLifetimes}

\* struct FirebaseAuthUser as /userinfo answers it; every field is optional
UserInfos ==
    {[ok |-> TRUE, localId |-> "uid2", email |-> "mail2", displayName |-> "name2"],
     [ok |-> TRUE, localId |-> "", email |-> "", displayName |-> ""],
     [ok |-> FALSE, localId |-> "", email |-> "", displayName |-> ""]}

InitLoginVars ==
    /\ lpc = "start"
    /\ sessionFile \in SessionFiles
    /\ cached = NoSession
    /\ fileWrites = 0
    /\ now \in StartTimes
    /\ deadline = 0
    /\ diff = 0
    /\ requests = <<>>
    /\ responses = <<>>
    /\ tokenResponse = NoToken
    /\ lresult = NoSession

IdleLoginVars ==
    /\ lpc = "idle"
    /\ sessionFile = FileMissing
    /\ cached = NoSession
    /\ fileWrites = 0
    /\ now = 0
    /\ deadline = 0
    /\ diff = 0
    /\ requests = <<>>
    /\ responses = <<>>
    /\ tokenResponse = NoToken
    /\ lresult = NoSession

\* a request is sent; the clock has moved on when its answer is there
Send(endpoint, waited) ==
    /\ requests' = Append(requests, endpoint)
    /\ \E l \in Latencies : now' = now + waited + l

\* perform_login returns None
ReturnNone ==
    /\ lpc' = "done"
    /\ lresult' = NoSession
    /\ UNCHANGED <<requests, now>>

\* the session file as read at the start: a missing, unreadable or
\* unparseable file is no session
ReadSession(file) ==
    IF file.kind = "session" THEN Some(file.session) ELSE NoSession

\* a start that tries the refresh_token grant for every session read
HasRefreshTokenAnySession(session) == session.some

\* whether the refresh_token grant is tried
HasRefreshToken(session) == session.some /\ session.v.refresh_token.some

\* perform_login up to its first request: the session file is read, then the
\* refresh_token grant or /authorize is posted
LoginStart ==
    /\ lpc = "start"
    /\ cached' = ReadSession(sessionFile)
    /\ IF HasRefreshToken(cached')
       THEN /\ Send("token_refresh", 0)
            /\ lpc' = "refresh"
       ELSE /\ Send("authorize", 0)
            /\ lpc' = "authorize"
    /\ UNCHANGED <<sessionFile, fileWrites, deadline, diff, responses,
                   tokenResponse, lresult>>

\* a refresh that takes every answer but 200 for a rejected refresh token
RefreshDispositionLenient(r) ==
    CASE r.status = 0   -> "abort"
      [] r.status = 200 -> "session"
      [] OTHER          -> "device_flow"

\* what the answer to the refresh_token grant leads to
RefreshDisposition(r) ==
    CASE r.status = 0   -> "abort"
      [] r.status = 400 -> "device_flow"
      [] r.status = 200 -> "session"
      [] OTHER          -> "abort"

\* a refresh that keeps the access token of the session file
RefreshedSessionKeepsAccessToken(session, r, t) ==
    UserSession(session.refresh_token, session.access_token,
                t + r.expires_in - SafetyMargin,
                session.user_id, session.user_email, session.user_display_name)

\* a refresh that stores the server-declared lifetime without the margin
RefreshedSessionNoMargin(session, r, t) ==
    UserSession(session.refresh_token, r.access_token, t + r.expires_in,
                session.user_id, session.user_email, session.user_display_name)

\* the session built from a refreshed access token
RefreshedSession(session, r, t) ==
    UserSession(session.refresh_token, r.access_token,
                t + r.expires_in - SafetyMargin,
                session.user_id, session.user_email, session.user_display_name)

\* the answer to the refresh_token grant
RefreshResponse ==
    /\ lpc = "refresh"
    /\ \E r \in TokenResponses("token_refresh") :
          /\ responses' = Append(responses, r)
          /\ CASE RefreshDisposition(r) = "abort" -> ReturnNone
               [] RefreshDisposition(r) = "device_flow" ->
                     /\ Send("authorize", 0)
                     /\ lpc' = "authorize"
                     /\ UNCHANGED lresult
               [] RefreshDisposition(r) = "session" ->
                     /\ lresult' = Some(RefreshedSession(cached.v, r.token, now))
                     /\ lpc' = "done"
                     /\ UNCHANGED <<requests, now>>
    /\ UNCHANGED <<sessionFile, cached, fileWrites, deadline, diff, tokenResponse>>

\* the top of a poll iteration: diff is taken, the loop sleeps and posts the
\* device_code grant
PollIteration(expires_in) ==
    /\ diff' = expires_in - now
    /\ Send("token_device", PollSleep)
    /\ lpc' = "poll"

\* the answer to /authorize; on 200 the poll loop is entered
AuthorizeResponse ==
    /\ lpc = "authorize"
    /\ \E r \in AuthorizeResponses :
          /\ responses' = Append(responses, r)
          /\ IF r.status # 200
             THEN /\ ReturnNone
                  /\ UNCHANGED <<deadline, diff>>
             ELSE /\ deadline' = now + r.lifetime
                  /\ PollIteration(deadline')
                  /\ UNCHANGED lresult
    /\ UNCHANGED <<sessionFile, cached, fileWrites, tokenResponse>>

\* a poll loop that goes round again after every 400
KeepsPollingOnAny400(r) == r.status = 400

\* whether the poll loop goes round again after this answer
KeepsPolling(r) == r.status = 400 /\ r.error = "authorization_pending"

\* a poll loop without a deadline
ExpiredNever(d) == FALSE

\* whether the check at the bottom of the poll loop gives up: it reads the
\* diff taken at the top of the iteration
Expired(d) == d < 0

\* the answer to a device_code grant of the poll loop
PollResponse ==
    /\ lpc = "poll"
    /\ \E r \in TokenResponses("token_device") :
          /\ responses' = Append(responses, r)
          /\ CASE r.status = 0 ->
                     /\ ReturnNone
                     /\ UNCHANGED <<diff, tokenResponse>>
               [] r.status = 200 ->
                     /\ tokenResponse' = r.token
                     /\ Send("userinfo", 0)
                     /\ lpc' = "userinfo"
                     /\ UNCHANGED <<diff, lresult>>
               [] r.status # 0 /\ r.status # 200 /\ ~KeepsPolling(r) ->
                     /\ ReturnNone
                     /\ UNCHANGED <<diff, tokenResponse>>
               [] KeepsPolling(r) ->
                     IF Expired(diff)
                     THEN /\ ReturnNone
                          /\ UNCHANGED <<diff, tokenResponse>>
                     ELSE /\ PollIteration(deadline)
                          /\ UNCHANGED <<lresult, tokenResponse>>
    /\ UNCHANGED <<sessionFile, cached, fileWrites, deadline>>

\* the session built at the end of the device flow
DeviceSession(r, user, t) ==
    UserSession(r.refresh_token, r.access_token,
                t + r.expires_in - SafetyMargin,
                user.localId, user.email, user.displayName)

\* the answer of /userinfo, and the write of the session file: File::create
\* fails, or the file is created and write_all succeeds or fails unnoticed
UserinfoResponse ==
    /\ lpc = "userinfo"
    /\ \E user \in UserInfos, transport \in BOOLEAN,
          disk \in {"create_failed", "written", "write_failed"} :
          /\ responses' = Append(responses,
                Response("userinfo", IF transport THEN 200 ELSE 0, "", NoToken, 0))
          /\ IF ~transport \/ ~user.ok
             THEN /\ lresult' = NoSession
                  /\ UNCHANGED <<sessionFile, fileWrites>>
             ELSE LET session == DeviceSession(tokenResponse, user, now)
                  IN CASE disk = "create_failed" ->
                             /\ lresult' = NoSession
                             /\ UNCHANGED <<sessionFile, fileWrites>>
                       [] disk = "written" ->
                             /\ lresult' = Some(session)
                             /\ sessionFile' = FileOf(session)
                             /\ fileWrites' = fileWrites + 1
                       [] disk = "write_failed" ->
                             /\ lresult' = Some(session)
                             /\ sessionFile' = FileCorrupt
                             /\ UNCHANGED fileWrites
    /\ lpc' = "done"
    /\ UNCHANGED <<cached, now, deadline, diff, requests, tokenResponse>>

(***************************************************************************)
(* Registry cache: addon_registry                                          *)
(***************************************************************************)
\* the freshness window of the cache, in seconds
FreshnessWindow == 500

\* Option<AddonEntryMap>
NoSnapshot == None("")

\* age of the cache file in whole seconds (Duration::as_secs); MtimeAhead
\* stands for a modification time ahead of the clock, for which
\* duration_since() is an error
MtimeAhead == -1
CacheAges == {MtimeAhead, 0, FreshnessWindow - 1, FreshnessWindow, FreshnessWindow + 1}

\* what the cache file holds: a serialized snapshot, or bytes that do not
\* deserialize
CacheContents == {"snap_old", "corrupt"}

CacheMissing == [kind |-> "missing", age |-> 0, readable |-> FALSE, content |-> "corrupt"]
CacheFiles ==
    {CacheMissing}
    \cup [kind : {"file"}, age : CacheAges, readable : BOOLEAN, content : CacheContents]

\* the answers of the live fetch: send() or json() fails, or a snapshot
FetchOutcomes == {NoSnapshot, Some("snap_new")}

\* what File::create and write_all do when the cache is written
DiskOutcomes == {"written", "create_failed", "write_failed"}

InitRegistryVars ==
    /\ rpc = "start"
    /\ cacheFile \in CacheFiles
    /\ cacheFile0 = cacheFile
    /\ fetchLog = <<>>
    /\ rresult = NoSnapshot

IdleRegistryVars ==
    /\ rpc = "idle"
    /\ cacheFile = CacheMissing
    /\ cacheFile0 = CacheMissing
    /\ fetchLog = <<>>
    /\ rresult = NoSnapshot

\* cache_time: the age of the file, None when there is no metadata or the
\* modification time is ahead of the clock
cache_time(file) ==
    IF file.kind = "file" /\ file.age # MtimeAhead
    THEN [some |-> TRUE, v |-> file.age]
    ELSE [some |-> FALSE, v |-> 0]

\* a freshness test that lets the boundary through
IsFreshInclusive(secs) == secs <= FreshnessWindow

\* duration.as_secs() < 500
IsFresh(secs) == secs < FreshnessWindow

\* registry_content after the look at the cache
registry_content(file) ==
    IF /\ cache_time(file).some
       /\ IsFresh(cache_time(file).v)
       /\ file.readable
       /\ file.content # "corrupt"
    THEN Some(file.content)
    ELSE NoSnapshot

\* addon_registry up to its return from the cache or to the live fetch
CacheLookup ==
    /\ rpc = "start"
    /\ IF registry_content(cacheFile).some
       THEN /\ rresult' = registry_content(cacheFile)
            /\ rpc' = "done"
       ELSE /\ rpc' = "fetching"
            /\ UNCHANGED rresult
    /\ UNCHANGED <<cacheFile, cacheFile0, fetchLog>>

\* a failed fetch that falls back on what the cache file holds
OnFetchFailureUseStale(file) ==
    IF file.kind = "file" /\ file.readable /\ file.content # "corrupt"
    THEN Some(file.content)
    ELSE NoSnapshot

\* what addon_registry returns when the live fetch failed
OnFetchFailure(file) == NoSnapshot

\* the cache file after File::create and write_all of the snapshot
WrittenCache(v) == [kind |-> "file", age |-> 0, readable |-> TRUE, content |-> v]
\* the cache file after File::create and a failed write_all
TruncatedCache == [kind |-> "file", age |-> 0, readable |-> TRUE, content |-> "corrupt"]

\* the answer of the live fetch; a snapshot is written to the cache file,
\* and every failure of that write is an unwrap() that aborts the program
FetchResponse ==
    /\ rpc = "fetching"
    /\ \E outcome \in FetchOutcomes, disk \in DiskOutcomes :
          /\ fetchLog' = Append(fetchLog, outcome)
          /\ IF ~outcome.some
             THEN /\ rresult' = OnFetchFailure(cacheFile)
                  /\ rpc' = "done"
                  /\ UNCHANGED cacheFile
             ELSE CASE disk = "create_failed" ->
                          /\ rpc' = "panicked"
                          /\ UNCHANGED <<cacheFile, rresult>>
                    [] disk = "write_failed" ->
                          /\ rpc' = "panicked"
                          /\ cacheFile' = TruncatedCache
                          /\ UNCHANGED rresult
                    [] disk = "written" ->
                          /\ rpc' = "done"
                          /\ cacheFile' = WrittenCache(outcome.v)
                          /\ rresult' = outcome
    /\ UNCHANGED cacheFile0


(***************************************************************************)
(* Publish: post_to_registry                                               *)
(***************************************************************************)
\* image sizes the targets carry when the record is assembled
PublishSizes == {0, 50, 101}

\* the target list after build_images and upload_images: any flags with
\* uploaded only where build, any recorded size
PublishTarget(i, built, upl, size) ==
    [BuildInstruction(i, upl, size) EXCEPT !.build = built]

PublishTargetLists ==
    UNION {[1..n -> {f \in BOOLEAN \X BOOLEAN : f[2] => f[1]} \X PublishSizes] :
              n \in 0..MaxTargets}

\* Option<BuildContext>
NoBuild == None("")
BuildContexts == {NoBuild, Some(".")}

\* Option<String> of the image of a service
NoImage == None("")
PublishImages == {NoImage, Some("redis:5")}

\* the services of the manifest: every other field of AddonService is
\* carried by ports
PublishServiceIds == {"web", "db"}
PublishServices ==
    [image : PublishImages, build : BuildContexts, ports : {Some(<<"80:80">>)}]
PublishServiceMaps ==
    UNION {[ids -> PublishServices] : ids \in (SUBSET PublishServiceIds) \ {{}}}

\* x-ohx-registry: id and version of the addon
AddonIds == {"ohx-addon"}
AddonVersions == {"1.0", "2.1"}

\* x-runtime
RuntimeRequirements == [memory_min |-> 64, memory_max |-> 128]

InputFiles ==
    [services : PublishServiceMaps,
     x_ohx_registry : [id : AddonIds, version : AddonVersions],
     x_runtime : {RuntimeRequirements}]

NoInputFile ==
    [services |-> <<>>,
     x_ohx_registry |-> [id |-> "", version |-> ""],
     x_runtime |-> RuntimeRequirements]

\* the answers to the POST: a transport failure (status 0) or a status
PostStatuses == {0, 200, 401, 500}

InitPublishVars ==
    /\ ppc = "start"
    /\ input_file \in InputFiles
    /\ posts = <<>>
    /\ postAnswers = <<>>
    /\ presult = FALSE

IdlePublishVars ==
    /\ ppc = "idle"
    /\ input_file = NoInputFile
    /\ posts = <<>>
    /\ postAnswers = <<>>
    /\ presult = FALSE

\* the build variables of a run of post_to_registry: the list is as the
\* build and push stages left it
PublishBuildVars ==
    /\ \E f \in PublishTargetLists :
          targets = [i \in DOMAIN f |-> PublishTarget(i, f[i][1][1], f[i][1][2], f[i][2])]
    /\ targets0 = targets
    /\ bpc = "done"
    /\ idx = Len(targets) + 1
    /\ child = NoChild
    /\ invoked = <<>>
    /\ exited = <<>>

\* integer division of i64: the quotient is truncated toward zero
TruncDiv(a, b) ==
    IF (a >= 0) = (b > 0) THEN a \div b
    ELSE -((-a) \div b)

\* fold(0, |acc, b| acc + b.image_size)
RECURSIVE SumSizes(_)
SumSizes(list) ==
    IF list = <<>> THEN 0
    ELSE list[1].image_size + SumSizes(Tail(list))

\* an archs list that keeps the built targets only
ArchsOfBuilt(list) ==
    LET sel == SelectSeq(list, LAMBDA b : b.build)
    IN [i \in 1..Len(sel) |-> sel[i].arch]

\* build_instructions.iter().map(|e| e.arch).collect()
ArchsOf(list) == [i \in 1..Len(list) |-> list[i].arch]

\* a mean over the built targets only
MeanSizeOfBuilt(list) ==
    LET sel == SelectSeq(list, LAMBDA b : b.build)
    IN IF sel = <<>> THEN 0 ELSE TruncDiv(SumSizes(sel), Len(sel))

\* the size field: the sum of all sizes divided by the number of targets
MeanSize(list) == TruncDiv(SumSizes(list), Len(list))

\* format!("docker.io/openhabx/{}:{}", id, version)
PublishedImage(common) == "docker.io/openhabx/" \o common.id \o ":" \o common.version

\* a rewrite that points every service at the published image
RewriteEveryService(service, common) ==
    [service EXCEPT !.build = NoBuild, !.image = Some(PublishedImage(common))]

\* the loop body over reg_entry.services: only entries with a build change
RewriteService(service, common) ==
    IF ~service.build.some THEN service
    ELSE [service EXCEPT !.build = NoBuild, !.image = Some(PublishedImage(common))]

\* reg_entry as it is serialized into the POST
reg_entry(file, list) ==
    [services |-> [id \in DOMAIN file.services |->
                      RewriteService(file.services[id], file.x_ohx_registry)],
     x_ohx_registry |-> file.x_ohx_registry,
     x_runtime |-> file.x_runtime,
     archs |-> ArchsOf(list),
     size |-> MeanSize(list)]

\* a verdict that takes any answer of the catalog for a success
PostSucceededOnAnyAnswer(status) == status # 0

\* the verdict on the POST: Ok(response) with response.status() == 200
PostSucceeded(status) == status = 200

\* a post_to_registry that takes the mean of no sizes to be 0
PublishEmptyMeanZero ==
    /\ ppc = "start"
    /\ \E status \in PostStatuses :
          /\ posts' = Append(posts,
                 IF Len(targets) = 0
                 THEN [reg_entry(input_file, <<BuildInstruction(1, FALSE, 0)>>)
                          EXCEPT !.archs = <<>>]
                 ELSE reg_entry(input_file, targets))
          /\ postAnswers' = Append(postAnswers, status)
          /\ presult' = PostSucceeded(status)
          /\ ppc' = "done"
    /\ UNCHANGED input_file

\* post_to_registry: with no target the division aborts the program before
\* anything is sent; otherwise the record is posted once
Publish ==
    /\ ppc = "start"
    /\ IF Len(targets) = 0
       THEN /\ ppc' = "panicked"
            /\ UNCHANGED <<posts, postAnswers, presult>>
       ELSE \E status \in PostStatuses :
               /\ posts' = Append(posts, reg_entry(input_file, targets))
               /\ postAnswers' = Append(postAnswers, status)
               /\ presult' = PostSucceeded(status)
               /\ ppc' = "done"
    /\ UNCHANGED input_file
(***************************************************************************)
(* Progress indicator and output-drain tasks of build_images/upload_images *)
(***************************************************************************)
\* the message of a bar: who set it last, and for which target
NoMessage == [by |-> "none", target |-> 0]

\* ProgressBar::new(len): no message, position 0, not finished
NewBar == [message |-> NoMessage, pos |-> 0, finished |-> FALSE]

\* the bar a child's drain task holds a clone of: the one of its function
BarOf(tool) == IF tool = "build" THEN "build_images" ELSE "upload_images"

InitDrainVars ==
    /\ drains = {}
    /\ pb = [bar \in {"build_images", "upload_images"} |-> NewBar]
    /\ lateWrites = {}

\* the build variables of a run with the drain tasks: targets as they are
\* before any build, neither built nor uploaded, with no size
DrainBuildVars ==
    /\ \E n \in 0..MaxTargets :
          targets = [i \in 1..n |-> BuildInstruction(i, FALSE, 0)]
    /\ targets0 = targets
    /\ bpc = "build"
    /\ idx = 1
    /\ child = NoChild
    /\ invoked = <<>>
    /\ exited = <<>>

IdleDrainVars ==
    /\ drains = {}
    /\ pb = [bar \in {"build_images", "upload_images"} |-> NewBar]
    /\ lateWrites = {}

\* pb.set_message by the main flow
SetMessage(bar, i) == [pb EXCEPT ![bar].message = [by |-> "main", target |-> i]]

\* pb.inc(1) by the main flow
Inc(bar) == [pb EXCEPT ![bar].pos = @ + 1]

\* pb.finish() by the main flow
Finish(bar) == [pb EXCEPT ![bar].finished = TRUE]

\* build_images: the message is set, the child is spawned and its drain
\* task is spawned on the runtime
DrainedBuildSpawn ==
    /\ BuildSpawn
    /\ pb' = SetMessage("build_images", idx)
    /\ drains' = drains \cup {child'}
    /\ UNCHANGED lateWrites

\* build_images: block_on(child) returns; nothing waits for the drain task
DrainedBuildFinish ==
    /\ BuildFinish
    /\ pb' = Inc("build_images")
    /\ UNCHANGED <<drains, lateWrites>>

DrainedBuildReturn ==
    /\ BuildReturn
    /\ pb' = Finish("build_images")
    /\ UNCHANGED <<drains, lateWrites>>

DrainedUploadSkip ==
    /\ UploadSkip
    /\ pb' = Inc("upload_images")
    /\ UNCHANGED <<drains, lateWrites>>

DrainedUploadSpawn ==
    /\ UploadSpawn
    /\ pb' = SetMessage("upload_images", idx)
    /\ drains' = drains \cup {child'}
    /\ UNCHANGED lateWrites

DrainedUploadFinish ==
    /\ UploadFinish
    /\ pb' = Inc("upload_images")
    /\ UNCHANGED <<drains, lateWrites>>

DrainedUploadReturn ==
    /\ UploadReturn
    /\ pb' = Finish("upload_images")
    /\ UNCHANGED <<drains, lateWrites>>

\* a drain task reads a line of its child's output, which may still be in
\* the pipe after the child has exited, and sets it as the message
DrainLine ==
    /\ \E d \in drains :
          /\ pb' = [pb EXCEPT ![BarOf(d.tool)].message =
                                 [by |-> "drain", target |-> d.target]]
          /\ lateWrites' = IF d = child THEN lateWrites ELSE lateWrites \cup {d}
    /\ UNCHANGED <<buildVars, drains>>

\* a drain task reads the end of its child's output, after the child has
\* exited, and ends
DrainEnd ==
    /\ \E d \in drains :
          /\ d # child
          /\ drains' = drains \ {d}
    /\ UNCHANGED <<buildVars, pb, lateWrites>>

(***************************************************************************)
(* The run of the tool: main                                               *)
(*                                                                         *)
(* main.rs holds the stages validation, login and registry cache inline.   *)
(* Whether a request is answered, and how, is a free input here too.       *)
(***************************************************************************)
\* a manifest that passes validation and one that does not
MainManifests ==
    {OneService([EmptyService EXCEPT !.image = Some(i)]) :
        i \in {<<"a", "p", "p">>, <<"A", "p", "p">>}}

\* the session file: missing, a session with and one without refresh token
MainSessionFiles ==
    {FileMissing}
    \cup {FileOf(UserSession(r, "at_old", 500, "uid", "mail", "name")) :
            r \in {None(""), Some("rt_old")}}

\* the registry cache file: missing, or fresh and well-formed
MainCacheFiles ==
    {CacheMissing,
     [kind |-> "file", age |-> 0, readable |-> TRUE, content |-> "snap_old"]}

\* the body of a 200 answer of /token
MainTokenBody == [access_token |-> "at_new", expires_in |-> 60, refresh_token |-> Some("rt_new")]

\* what a request is answered: 0 stands for a failed send()
MainStatuses == {0, 200, 400, 500}

IdleMainVars ==
    /\ mpc = "idle"
    /\ mopt = [validate_only |-> FALSE, login_only |-> FALSE]
    /\ mlog = <<>>

InitMain ==
    /\ mpc = "validate"
    /\ mopt \in [validate_only : BOOLEAN, login_only : BOOLEAN]
    /\ mlog = <<>>
    /\ manifest \in MainManifests
    /\ vpc = "idle"
    /\ vorder = <<>>
    /\ vresult = Ok
    /\ lpc = "idle"
    /\ sessionFile \in MainSessionFiles
    /\ cached = NoSession
    /\ fileWrites = 0
    /\ now \in StartTimes
    /\ deadline = 0
    /\ diff = 0
    /\ requests = <<>>
    /\ responses = <<>>
    /\ tokenResponse = NoToken
    /\ lresult = NoSession
    /\ rpc = "idle"
    /\ cacheFile \in MainCacheFiles
    /\ cacheFile0 = cacheFile
    /\ fetchLog = <<>>
    /\ rresult = NoSnapshot
    /\ IdleBuildVars /\ IdlePublishVars /\ IdleDrainVars

\* main does something that takes `waited` seconds and more
MainDoes(event, waited) ==
    /\ mlog' = Append(mlog, event)
    /\ \E l \in Latencies : now' = now + waited + l

\* main returns
MainReturns ==
    /\ mpc' = "end"
    /\ UNCHANGED <<mlog, now>>

\* a run that goes on to the login when only validation was asked for
StopsOnInvalidOnly(result, opt) == ~result.ok

\* whether main returns after the validation
StopsAfterValidation(result, opt) == ~result.ok \/ opt.validate_only

\* main: the manifest is opened and validated
MainValidate ==
    /\ mpc = "validate"
    /\ \E found \in BOOLEAN, order \in Orders(DOMAIN manifest.services) :
          /\ vorder' = order
          /\ vresult' = IF found THEN open_validate_addons_file(manifest, order)
                        ELSE Err("io", "", <<>>)
    /\ mlog' = Append(mlog, "validate")
    /\ mpc' = IF StopsAfterValidation(vresult', mopt) THEN "end" ELSE "session"
    /\ UNCHANGED <<manifest, vpc, mopt, buildVars, loginVars, registryVars,
                   publishVars, drainVars>>

\* main: the session file is read; the refresh_token grant or /authorize is
\* posted
MainSession ==
    /\ mpc = "session"
    /\ cached' = ReadSession(sessionFile)
    /\ \E l \in Latencies : now' = now + l
    /\ IF HasRefreshToken(cached')
       THEN /\ mlog' = mlog \o <<"read_session", "oauth">>
            /\ mpc' = "refresh"
       ELSE /\ mlog' = mlog \o <<"read_session", "oauth">>
            /\ mpc' = "authorize"
    /\ UNCHANGED <<lpc, sessionFile, fileWrites, deadline, diff, requests,
                   responses, tokenResponse, lresult>>
    /\ UNCHANGED <<mopt, buildVars, validateVars, registryVars, publishVars, drainVars>>

\* main: the answer to the refresh_token grant; every status but 200 leads
\* to the device flow
MainRefreshResponse ==
    /\ mpc = "refresh"
    /\ \E status \in MainStatuses :
          CASE status = 0 ->
                  /\ MainReturns
                  /\ UNCHANGED lresult
            [] status = 200 ->
                  /\ lresult' = Some(RefreshedSession(cached.v, MainTokenBody, now))
                  /\ mpc' = "logged_in"
                  /\ UNCHANGED <<mlog, now>>
            [] OTHER ->
                  /\ MainDoes("oauth", 0)
                  /\ mpc' = "authorize"
                  /\ UNCHANGED lresult
    /\ UNCHANGED <<lpc, sessionFile, cached, fileWrites, deadline, diff, requests,
                   responses, tokenResponse>>
    /\ UNCHANGED <<mopt, buildVars, validateVars, registryVars, publishVars, drainVars>>

\* main: the top of a poll iteration
MainPollIteration(expires_in) ==
    /\ diff' = expires_in - now
    /\ MainDoes("oauth", PollSleep)
    /\ mpc' = "poll"

\* main: the answer to /authorize
MainAuthorizeResponse ==
    /\ mpc = "authorize"
    /\ \E status \in MainStatuses, lifetime \in DeviceLifetimes :
          IF status # 200
          THEN /\ MainReturns
               /\ UNCHANGED <<deadline, diff>>
          ELSE /\ deadline' = now + lifetime
               /\ MainPollIteration(deadline')
    /\ UNCHANGED <<lpc, sessionFile, cached, fileWrites, requests, responses,
                   tokenResponse, lresult>>
    /\ UNCHANGED <<mopt, buildVars, validateVars, registryVars, publishVars, drainVars>>

\* main: the answer to a device_code grant.  On 200 the body is read from
\* the answer of /authorize, which was read before: the unwrap aborts the
\* program, or a token is there.  A 400 that is not authorization_pending
\* ends the loop; any other answer goes to the check of diff.
MainPollResponse ==
    /\ mpc = "poll"
    /\ \E status \in MainStatuses, pending \in BOOLEAN, parsed \in BOOLEAN :
          CASE status = 0 ->
                  /\ MainReturns
                  /\ UNCHANGED <<diff, tokenResponse>>
            [] status = 200 /\ ~parsed ->
                  /\ mpc' = "panicked"
                  /\ UNCHANGED <<mlog, now, diff, tokenResponse>>
            [] status = 200 /\ parsed ->
                  /\ tokenResponse' = MainTokenBody
                  /\ MainDoes("oauth", 0)
                  /\ mpc' = "userinfo"
                  /\ UNCHANGED diff
            [] status = 400 /\ ~pending ->
                  /\ MainReturns
                  /\ UNCHANGED <<diff, tokenResponse>>
            [] OTHER ->
                  IF Expired(diff)
                  THEN /\ MainReturns
                       /\ UNCHANGED <<diff, tokenResponse>>
                  ELSE /\ MainPollIteration(deadline)
                       /\ UNCHANGED tokenResponse
    /\ UNCHANGED <<lpc, sessionFile, cached, fileWrites, deadline, requests,
                   responses, lresult>>
    /\ UNCHANGED <<mopt, buildVars, validateVars, registryVars, publishVars, drainVars>>

\* main: the answer of /userinfo: no answer or no parse, an empty list of
\* users (the unwrap aborts the program), or a user
MainUserinfoResponse ==
    /\ mpc = "userinfo"
    /\ \E outcome \in {"failed", "no_user", "user"} :
          CASE outcome = "failed" ->
                  /\ mpc' = "end"
                  /\ UNCHANGED lresult
            [] outcome = "no_user" ->
                  /\ mpc' = "panicked"
                  /\ UNCHANGED lresult
            [] outcome = "user" ->
                  /\ lresult' = Some(DeviceSession(tokenResponse,
                         [ok |-> TRUE, localId |-> "uid2", email |-> "mail2",
                          displayName |-> "name2"], now))
                  /\ mpc' = "logged_in"
    /\ UNCHANGED <<lpc, sessionFile, cached, fileWrites, now, deadline, diff,
                   requests, responses, tokenResponse>>
    /\ UNCHANGED <<mlog, mopt, buildVars, validateVars, registryVars, publishVars,
                   drainVars>>

\* main: logged in; unless only the login was asked for, the registry cache
\* is looked at and served, or the registry is fetched
MainLoggedIn ==
    /\ mpc = "logged_in"
    /\ IF mopt.login_only
       THEN /\ mpc' = "end"
            /\ UNCHANGED <<mlog, rresult>>
       ELSE IF registry_content(cacheFile).some
            THEN /\ mlog' = Append(mlog, "registry_cache")
                 /\ rresult' = registry_content(cacheFile)
                 /\ mpc' = "end"
            ELSE /\ mlog' = mlog \o <<"registry_cache", "registry_fetch">>
                 /\ mpc' = "fetch"
                 /\ UNCHANGED rresult
    /\ UNCHANGED <<rpc, cacheFile, cacheFile0, fetchLog>>
    /\ UNCHANGED <<mopt, buildVars, validateVars, loginVars, publishVars, drainVars>>

\* main: the answer of the registry.  A snapshot is written through
\* File::open, which opens for reading only: the unwrap aborts the program.
MainFetchResponse ==
    /\ mpc = "fetch"
    /\ \E outcome \in FetchOutcomes :
          /\ fetchLog' = Append(fetchLog, outcome)
          /\ mpc' = IF outcome.some THEN "panicked" ELSE "end"
    /\ UNCHANGED <<rpc, cacheFile, cacheFile0, rresult>>
    /\ UNCHANGED <<mlog, mopt, buildVars, validateVars, loginVars, publishVars,
                   drainVars>>

(***************************************************************************)
(* Specifications                                                          *)
(***************************************************************************)
InitBuild ==
    InitBuildVars /\ IdleValidateVars /\ IdleLoginVars /\ IdleRegistryVars /\ IdlePublishVars
        /\ IdleDrainVars /\ IdleMainVars
NextBuild ==
    \/ BuildSpawn /\ UNCHANGED <<validateVars, loginVars, registryVars, publishVars, drainVars, mainVars>>
    \/ BuildFinish /\ UNCHANGED <<validateVars, loginVars, registryVars, publishVars, drainVars, mainVars>>
    \/ BuildReturn /\ UNCHANGED <<validateVars, loginVars, registryVars, publishVars, drainVars, mainVars>>
    \/ UploadSkip /\ UNCHANGED <<validateVars, loginVars, registryVars, publishVars, drainVars, mainVars>>
    \/ UploadSpawn /\ UNCHANGED <<validateVars, loginVars, registryVars, publishVars, drainVars, mainVars>>
    \/ UploadFinish /\ UNCHANGED <<validateVars, loginVars, registryVars, publishVars, drainVars, mainVars>>
    \/ UploadReturn /\ UNCHANGED <<validateVars, loginVars, registryVars, publishVars, drainVars, mainVars>>
SpecBuild == InitBuild /\ [][NextBuild]_vars

InitValidate ==
    IdleBuildVars /\ InitValidateVars /\ IdleLoginVars /\ IdleRegistryVars /\ IdlePublishVars
        /\ IdleDrainVars /\ IdleMainVars
NextValidate == Validate /\ UNCHANGED <<buildVars, loginVars, registryVars, publishVars, drainVars, mainVars>>
SpecValidate == InitValidate /\ [][NextValidate]_vars

InitLogin ==
    IdleBuildVars /\ IdleValidateVars /\ InitLoginVars /\ IdleRegistryVars /\ IdlePublishVars
        /\ IdleDrainVars /\ IdleMainVars
NextLogin ==
    \/ LoginStart /\ UNCHANGED <<buildVars, validateVars, registryVars, publishVars, drainVars, mainVars>>
    \/ RefreshResponse /\ UNCHANGED <<buildVars, validateVars, registryVars, publishVars, drainVars, mainVars>>
    \/ AuthorizeResponse /\ UNCHANGED <<buildVars, validateVars, registryVars, publishVars, drainVars, mainVars>>
    \/ PollResponse /\ UNCHANGED <<buildVars, validateVars, registryVars, publishVars, drainVars, mainVars>>
    \/ UserinfoResponse /\ UNCHANGED <<buildVars, validateVars, registryVars, publishVars, drainVars, mainVars>>
SpecLogin == InitLogin /\ [][NextLogin]_vars

\* perform_login runs on: the thread is scheduled, and every request is
\* answered or fails
SpecLoginFair == SpecLogin /\ WF_vars(NextLogin)

InitRegistry ==
    IdleBuildVars /\ IdleValidateVars /\ IdleLoginVars /\ InitRegistryVars /\ IdlePublishVars
        /\ IdleDrainVars /\ IdleMainVars
NextRegistry ==
    \/ CacheLookup /\ UNCHANGED <<buildVars, validateVars, loginVars, publishVars, drainVars, mainVars>>
    \/ FetchResponse /\ UNCHANGED <<buildVars, validateVars, loginVars, publishVars, drainVars, mainVars>>
SpecRegistry == InitRegistry /\ [][NextRegistry]_vars

InitPublish ==
    PublishBuildVars /\ IdleValidateVars /\ IdleLoginVars /\ IdleRegistryVars /\ InitPublishVars
        /\ IdleDrainVars /\ IdleMainVars
NextPublish ==
    Publish /\ UNCHANGED <<buildVars, validateVars, loginVars, registryVars, drainVars, mainVars>>
SpecPublish == InitPublish /\ [][NextPublish]_vars

InitDrain ==
    DrainBuildVars /\ IdleValidateVars /\ IdleLoginVars /\ IdleRegistryVars /\ IdlePublishVars
        /\ InitDrainVars /\ IdleMainVars
NextDrain ==
    \/ DrainedBuildSpawn /\ UNCHANGED <<validateVars, loginVars, registryVars, publishVars, mainVars>>
    \/ DrainedBuildFinish /\ UNCHANGED <<validateVars, loginVars, registryVars, publishVars, mainVars>>
    \/ DrainedBuildReturn /\ UNCHANGED <<validateVars, loginVars, registryVars, publishVars, mainVars>>
    \/ DrainedUploadSkip /\ UNCHANGED <<validateVars, loginVars, registryVars, publishVars, mainVars>>
    \/ DrainedUploadSpawn /\ UNCHANGED <<validateVars, loginVars, registryVars, publishVars, mainVars>>
    \/ DrainedUploadFinish /\ UNCHANGED <<validateVars, loginVars, registryVars, publishVars, mainVars>>
    \/ DrainedUploadReturn /\ UNCHANGED <<validateVars, loginVars, registryVars, publishVars, mainVars>>
    \/ DrainLine /\ UNCHANGED <<validateVars, loginVars, registryVars, publishVars, mainVars>>
    \/ DrainEnd /\ UNCHANGED <<validateVars, loginVars, registryVars, publishVars, mainVars>>
SpecDrain == InitDrain /\ [][NextDrain]_vars

\* each of build_images followed by upload_images, and post_to_registry, run
\* on a list of its own
InitOperations == InitBuild \/ InitPublish
NextOperations == NextBuild \/ NextPublish
SpecOperations == InitOperations /\ [][NextOperations]_vars

NextMain ==
    \/ MainValidate
    \/ MainSession
    \/ MainRefreshResponse
    \/ MainAuthorizeResponse
    \/ MainPollResponse
    \/ MainUserinfoResponse
    \/ MainLoggedIn
    \/ MainFetchResponse
SpecMain == InitMain /\ [][NextMain]_vars

(***************************************************************************)
(* Properties of build_images and upload_images                            *)
(***************************************************************************)
\* the targets a tool was started for, in the order of the starts
StartsOf(tool) ==
    LET sel == SelectSeq(invoked, LAMBDA e : e.tool = tool)
    IN [k \in 1..Len(sel) |-> sel[k].target]

\* the exits of a tool for a target
ExitsOf(tool, i) == {k \in 1..Len(exited) : exited[k].tool = tool /\ exited[k].target = i}

\* C1: build_images starts the build tool once per target, in list order,
\* whatever the exit status of the builds and the outcome of inspect before:
\* while the loop runs the builds started are those of targets 1..current,
\* and when build_images has returned they are those of targets 1..n.
C1_EveryTargetBuiltOnceInOrder ==
    LET b == StartsOf("build")
    IN /\ \A k \in 1..Len(b) : b[k] = k
       /\ bpc = "build" => Len(b) = (IF child = NoChild THEN idx - 1 ELSE idx)
       /\ bpc \in {"upload", "done"} => Len(b) = Len(targets)

\* build_images has returned after the first target failed to build and to
\* be inspected, and the second target was built all the same
C1_Witness ==
    /\ bpc = "upload"
    /\ Len(targets) = 2
    /\ exited[1] = [tool |-> "build", target |-> 1, ok |-> FALSE,
                    insp |-> [kind |-> "failed", size |-> 0]]
    /\ ~targets[1].build
    /\ StartsOf("build") = <<1, 2>>

\* C2: upload_images never starts the push tool for a target whose build
\* flag is false and leaves its uploaded flag as it was handed in; a target
\* whose build flag is true is pushed exactly once, its uploaded flag is the
\* success of that push, and a failed push does not stop the loop.
C2_PushOnlyBuiltOncePerTarget ==
    LET p == StartsOf("push")
        pushes(i) == {k \in 1..Len(p) : p[k] = i}
        handled(i) == bpc = "done" \/ (bpc = "upload" /\ i < idx)
    IN \A i \in 1..Len(targets) :
          /\ Cardinality(pushes(i)) <= 1
          /\ bpc = "build" => pushes(i) = {}
          /\ (bpc \in {"upload", "done"} /\ ~targets[i].build) =>
                /\ pushes(i) = {}
                /\ targets[i].uploaded = targets0[i].uploaded
          /\ (handled(i) /\ targets[i].build) =>
                /\ Cardinality(pushes(i)) = 1
                /\ Cardinality(ExitsOf("push", i)) = 1
                /\ \A k \in ExitsOf("push", i) : targets[i].uploaded = exited[k].ok
          /\ ~handled(i) /\ pushes(i) = {} => targets[i].uploaded = targets0[i].uploaded

\* upload_images has returned: the push of the first target failed, the
\* second target, not built, was skipped and kept uploaded = false
C2_Witness ==
    /\ bpc = "done"
    /\ Len(targets) = 2
    /\ targets[1].build /\ ~targets[1].uploaded
    /\ StartsOf("push") = <<1>>
    /\ ~targets[2].build /\ ~targets0[2].uploaded /\ ~targets[2].uploaded

(***************************************************************************)
(* Properties of the manifest validation                                   *)
(***************************************************************************)
\* the manifest has the one service "api" with exactly one port
\* specification, and has been validated
OnePortValidated ==
    /\ vpc = "validated"
    /\ DOMAIN manifest.services = {"api"}
    /\ manifest.services["api"] =
          [EmptyService EXCEPT !.ports = manifest.services["api"].ports]
    /\ manifest.services["api"].ports.some
    /\ Len(manifest.services["api"].ports.v) = 1

ThePort == manifest.services["api"].ports.v[1]

\* how a port specification reads: the part before the first '/', its
\* colon-separated positions, the bounds of a position
BodyOf(port) == Split(port, "/")[1]
PositionsOf(port) == Split(BodyOf(port), ":")
BoundsOf(position) == Split(position, "-")
IsU16(bound) == ParseU16(bound) # ParseError
Privileged(bound) == IsU16(bound) /\ ParseU16(bound) < PrivilegedLimit

\* optional tcp/udp suffix, at most two positions, at most two bounds in
\* each, every bound a 16-bit number
WellFormedPort(port) ==
    /\ Len(Split(port, "/")) <= 2
    /\ Len(Split(port, "/")) = 2 => Split(port, "/")[2] \in {ProtoTcp, ProtoUdp}
    /\ Len(PositionsOf(port)) <= 2
    /\ \A k \in 1..Len(PositionsOf(port)) :
          /\ Len(BoundsOf(PositionsOf(port)[k])) <= 2
          /\ \A i \in 1..Len(BoundsOf(PositionsOf(port)[k])) :
                IsU16(BoundsOf(PositionsOf(port)[k])[i])

\* a bound below 1024 in the host-side position of a two-position mapping
PrivilegedHostBound(port) ==
    /\ Len(PositionsOf(port)) = 2
    /\ \E i \in 1..Len(BoundsOf(PositionsOf(port)[1])) :
          Privileged(BoundsOf(PositionsOf(port)[1])[i])

\* C3: a port specification with two colon-separated positions and a bound
\* below 1024 in the first, host-side position is rejected.
C3_PrivilegedHostPortRejected ==
    (OnePortValidated /\ PrivilegedHostBound(ThePort)) => ~vresult.ok

\* C4: bounds in the container-side position of a two-position mapping and
\* in the sole position of a single-position specification are not rejected
\* as privileged: a specification without protocol suffix whose bounds are
\* all 16-bit numbers and whose host-side position has no bound below 1024
\* is accepted.
C4_ContainerBoundsUnrestricted ==
    (/\ OnePortValidated
     /\ Len(Split(ThePort, "/")) = 1
     /\ WellFormedPort(ThePort)
     /\ ~PrivilegedHostBound(ThePort)) => vresult.ok

\* C5: with a protocol suffix after '/', the suffix must be tcp or udp, and
\* then the part before the '/' is what is validated as port positions: the
\* specification is accepted exactly when that part alone is.
C5_ProtocolSuffixThenPositions ==
    (OnePortValidated /\ Len(Split(ThePort, "/")) = 2) =>
        IF Split(ThePort, "/")[2] \in {ProtoTcp, ProtoUdp}
        THEN vresult.ok <=> CheckPort("api", BodyOf(ThePort)).ok
        ELSE ~vresult.ok

\* the image reference grammar: registry/name with two segments, the name
\* alone otherwise
WellFormedImage(ref) ==
    LET parts == Split(ref, "/")
    IN IF Len(parts) = 2
       THEN pattern_registry(parts[1]) /\ pattern_image_name(parts[2])
       ELSE pattern_image_name(ref)

WellFormedService(data, service) ==
    /\ service.image.some => WellFormedImage(service.image.v)
    /\ service.permissions.some =>
          /\ \A i \in 1..Len(service.permissions.v.mandatory) :
                service.permissions.v.mandatory[i] \in addon_permissions
          /\ \A i \in 1..Len(service.permissions.v.optional) :
                service.permissions.v.optional[i] \in addon_permissions
    /\ service.ports.some =>
          \A i \in 1..Len(service.ports.v) :
              WellFormedPort(service.ports.v[i]) /\ ~PrivilegedHostBound(service.ports.v[i])
    /\ service.depends_on.some =>
          \A i \in 1..Len(service.depends_on.v) :
              service.depends_on.v[i] \in DOMAIN data.services
    /\ service.volumes.some =>
          \A i \in 1..Len(service.volumes.v) :
              Split(service.volumes.v[i], ":")[1] = LogVolume

WellFormedManifest(data) ==
    /\ DOMAIN data.services # {}
    /\ \A id \in DOMAIN data.services : WellFormedService(data, data.services[id])

\* C6: a well-formed manifest (non-empty service map, image references of
\* the grammar, known permissions, well-formed ports without privileged
\* host bound, resolvable depends_on, logvolume volumes) is accepted.
C6_WellFormedManifestAccepted ==
    (vpc = "validated" /\ WellFormedManifest(manifest)) => vresult.ok

\* the unresolved depends_on entries of a service, as positions of its list
Unresolved(data, id) ==
    IF ~data.services[id].depends_on.some THEN {}
    ELSE {i \in 1..Len(data.services[id].depends_on.v) :
             data.services[id].depends_on.v[i] \notin DOMAIN data.services}

FirstUnresolved(data, id) ==
    LET i == CHOOSE i \in Unresolved(data, id) : \A j \in Unresolved(data, id) : i <= j
    IN data.services[id].depends_on.v[i]

\* C7 as stated: whenever a depends_on entry names no service of the
\* manifest, validation fails and the error names that entry.
C7_EveryUnresolvedDependencyNamed ==
    vpc = "validated" =>
        \A id \in DOMAIN manifest.services :
            \A i \in Unresolved(manifest, id) :
                /\ ~vresult.ok
                /\ vresult.kind = "depends"
                /\ vresult.token = manifest.services[id].depends_on.v[i]

\* the position in the visiting order of the first service that has an
\* unresolved dependency
FirstWithUnresolved(data, order) ==
    CHOOSE k \in 1..Len(order) :
        /\ Unresolved(data, order[k]) # {}
        /\ \A j \in 1..(k - 1) : Unresolved(data, order[j]) = {}

\* the unresolved dependency at position k of the order is the first
\* violation met: the services visited before are valid, and the image,
\* permissions and ports of the service pass
FirstViolationIsDependency(data, order, k) ==
    /\ \A j \in 1..(k - 1) : ValidateService(data, order[j]).ok
    /\ CheckImage(order[k], data.services[order[k]]).ok
    /\ CheckPermissions(order[k], data.services[order[k]]).ok
    /\ CheckPorts(order[k], data.services[order[k]]).ok

\* C7, amended: validation fails whenever a depends_on entry names no
\* service of the manifest; an error about a dependency names an unresolved
\* entry of the service it names; the error names the entry when the entry is
\* the first violation met; an accepted manifest has no unresolved entry.
C7_UnresolvedDependencyFails ==
    vpc = "validated" =>
        LET bad == {id \in DOMAIN manifest.services : Unresolved(manifest, id) # {}}
        IN /\ bad # {} => ~vresult.ok
           /\ vresult.ok => bad = {}
           /\ vresult.kind = "depends" =>
                 /\ vresult.service \in bad
                 /\ vresult.token = FirstUnresolved(manifest, vresult.service)
           /\ (bad # {} /\ FirstViolationIsDependency(manifest, vorder,
                                FirstWithUnresolved(manifest, vorder))) =>
                 LET id == vorder[FirstWithUnresolved(manifest, vorder)]
                 IN vresult = Err("depends", id, FirstUnresolved(manifest, id))

\* two services, one of them depends on "ghost", and the error names it
C7_Witness ==
    /\ vpc = "validated"
    /\ DOMAIN manifest.services = {"api", "worker"}
    /\ manifest.services["worker"].depends_on = Some(<<"ghost">>)
    /\ vresult = Err("depends", "worker", "ghost")

(***************************************************************************)
(* Properties of perform_login                                             *)
(***************************************************************************)
\* the answers the poll loop got, in order
PollAnswers == SelectSeq(responses, LAMBDA r : r.to = "token_device")

\* the number of requests sent to an endpoint
Sent(endpoint) == Len(SelectSeq(requests, LAMBDA e : e = endpoint))

AuthorizationPending(r) == r.status = 400 /\ r.error = "authorization_pending"

\* C8: the poll loop ends at the first answer that is not a 400 with
\* authorization_pending: every answer before the last one was pending, a
\* poll is outstanding only while all answers were pending, a 200 takes the
\* loop to its successful end (the token is kept and /userinfo is asked),
\* and any other answer ends perform_login without a session and without a
\* further request.
C8_PollLoopEndsAtFirstNonPending ==
    LET a == PollAnswers
        n == Len(a)
    IN /\ \A i \in 1..(n - 1) : AuthorizationPending(a[i])
       /\ lpc = "poll" => /\ Sent("token_device") = n + 1
                          /\ \A i \in 1..n : AuthorizationPending(a[i])
       /\ lpc # "poll" => Sent("token_device") = n
       /\ (n > 0 /\ a[n].status = 200) =>
             /\ lpc \in {"userinfo", "done"}
             /\ tokenResponse = a[n].token
             /\ Sent("userinfo") = 1
       /\ (n > 0 /\ a[n].status # 200 /\ ~AuthorizationPending(a[n])) =>
             /\ lpc = "done"
             /\ ~lresult.some
             /\ requests[Len(requests)] = "token_device"

\* the loop has ended in success on a 200 that followed a pending answer
C8_Witness ==
    /\ lpc = "userinfo"
    /\ Len(PollAnswers) = 2
    /\ AuthorizationPending(PollAnswers[1])
    /\ PollAnswers[2].status = 200

\* C9: once the time since the device code was issued exceeds its
\* expires_in, the loop aborts: an answer received after the deadline, be it
\* authorization_pending, is not followed by another token request.
C9_NoPollAfterDeadline ==
    [][(lpc = "poll" /\ now > deadline) => lpc' # "poll"]_vars

\* C10: with a cached refresh token, a 400 answer to the refresh_token grant
\* is followed by the /authorize request of the device flow; a transport
\* failure or a status other than 200 and 400 ends perform_login without a
\* session, /authorize is not asked and the grant is not sent again.
C10_RefreshRejectedOrFatal ==
    /\ Sent("token_refresh") <= 1
    /\ (Len(responses) > 0 /\ responses[1].to = "token_refresh") =>
          /\ responses[1].status = 400 =>
                /\ Len(requests) >= 2
                /\ requests[2] = "authorize"
          /\ responses[1].status \notin {200, 400} =>
                /\ lpc = "done"
                /\ ~lresult.some
                /\ requests = <<"token_refresh">>

\* the refresh token was rejected with a 400 and /authorize has been asked
C10_Witness ==
    /\ lpc = "authorize"
    /\ cached.some /\ cached.v.refresh_token.some
    /\ Len(responses) = 1
    /\ responses[1].to = "token_refresh"
    /\ responses[1].status = 400
    /\ requests = <<"token_refresh", "authorize">>

\* C11: whenever perform_login returns a session, by silent refresh or by
\* a completed device flow, the session file was written during the call
\* and holds the returned session.
C11_ReturnedSessionPersisted ==
    (lpc = "done" /\ lresult.some) =>
        /\ fileWrites >= 1
        /\ sessionFile = FileOf(lresult.v)

\* C12: on a 200 answer to the refresh_token grant the returned session has
\* the user id, email, display name and refresh token of the session read
\* from the file, the access token of the answer, and access_token_expires
\* = current time + expires_in of the answer - 10.
C12_RefreshedSessionFields ==
    (/\ lpc = "done"
     /\ Len(responses) = 1
     /\ responses[1].to = "token_refresh"
     /\ responses[1].status = 200) =>
        /\ lresult.some
        /\ lresult.v.user_id = sessionFile.session.user_id
        /\ lresult.v.user_email = sessionFile.session.user_email
        /\ lresult.v.user_display_name = sessionFile.session.user_display_name
        /\ lresult.v.refresh_token = sessionFile.session.refresh_token
        /\ lresult.v.access_token = responses[1].token.access_token
        /\ lresult.v.access_token_expires =
              now + responses[1].token.expires_in - SafetyMargin

\* the refresh_token grant was answered 200 and a session was returned
C12_Witness ==
    /\ lpc = "done"
    /\ responses = <<Response("token_refresh", 200, "",
                       [access_token |-> "at_new", expires_in |-> 60,
                        refresh_token |-> None("")], 0)>>
    /\ lresult.some
    /\ lresult.v.access_token = "at_new"
    /\ lresult.v.refresh_token = Some("rt_old")
    /\ lresult.v.user_id = "uid"

(***************************************************************************)
(* Properties of addon_registry                                            *)
(***************************************************************************)
\* the cache file as addon_registry found it: it exists, its age is defined
\* and under the freshness window, it can be read and it deserializes
CacheServable ==
    /\ cacheFile0.kind = "file"
    /\ cacheFile0.age >= 0
    /\ cacheFile0.age < FreshnessWindow
    /\ cacheFile0.readable
    /\ cacheFile0.content # "corrupt"

\* addon_registry returned without a live fetch
ServedFromCache == rpc = "done" /\ fetchLog = <<>>

\* C13: addon_registry returns the cached snapshot, with no live fetch and
\* the cache file untouched, exactly when the file exists, is younger than
\* 500 seconds and deserializes; a file of 500 seconds or more is never
\* served from the cache.
C13_CacheServedExactlyWhenFresh ==
    rpc \in {"fetching", "done", "panicked"} =>
        /\ CacheServable <=> ServedFromCache
        /\ ServedFromCache =>
              /\ rresult = Some(cacheFile0.content)
              /\ cacheFile = cacheFile0
        /\ (cacheFile0.kind = "file" /\ cacheFile0.age >= FreshnessWindow) =>
              ~ServedFromCache

\* a readable, well-formed cache file of 499 seconds has been returned
C13_Witness ==
    /\ rpc = "done"
    /\ cacheFile0 = [kind |-> "file", age |-> 499, readable |-> TRUE, content |-> "snap_old"]
    /\ fetchLog = <<>>
    /\ rresult = Some("snap_old")
    /\ cacheFile = cacheFile0

\* C14: with a cache file that cannot be served, addon_registry never fails
\* because of the cache: it makes one live fetch, and when the fetch
\* succeeded it has written the snapshot to the cache file and returns it.
C14_CacheNeverFatal ==
    (rpc \in {"fetching", "done", "panicked"} /\ ~CacheServable) =>
        /\ rpc # "panicked"
        /\ rpc = "done" =>
              /\ Len(fetchLog) = 1
              /\ fetchLog[1].some =>
                    /\ rresult = fetchLog[1]
                    /\ cacheFile.kind = "file"
                    /\ cacheFile.content = rresult.v

\* C15: when the live fetch fails addon_registry returns no snapshot, has
\* made that one fetch only, does not return what the cache file holds and
\* leaves the cache file as it was.
C15_FailedFetchIsFatal ==
    /\ Len(fetchLog) <= 1
    /\ (rpc = "done" /\ fetchLog # <<>> /\ ~fetchLog[1].some) =>
          /\ ~rresult.some
          /\ cacheFile = cacheFile0

\* the fetch failed while a stale but well-formed cache file was there
C15_Witness ==
    /\ rpc = "done"
    /\ cacheFile0 = [kind |-> "file", age |-> 501, readable |-> TRUE, content |-> "snap_old"]
    /\ fetchLog = <<NoSnapshot>>
    /\ rresult = NoSnapshot
    /\ cacheFile = cacheFile0

(***************************************************************************)
(* Properties of post_to_registry                                          *)
(***************************************************************************)
\* C16: the archs of the posted record are the architectures of all the
\* targets in list order, whatever their build and uploaded flags.
C16_ArchsListEveryTarget ==
    ppc = "done" =>
        /\ Len(posts) = 1
        /\ Len(posts[1].archs) = Len(targets)
        /\ \A i \in 1..Len(targets) : posts[1].archs[i] = targets[i].arch

\* a record was posted for a list whose first target failed to build and
\* whose second target was built but not pushed
C16_Witness ==
    /\ ppc = "done"
    /\ Len(targets) = 2
    /\ ~targets[1].build
    /\ targets[2].build /\ ~targets[2].uploaded
    /\ posts[1].archs = <<"amd64", "aarch64">>

\* C17: for a non-empty list the size of the posted record is the sum of all
\* the targets' image_size divided by the number of targets and truncated,
\* failed and unpushed targets counting in the sum and in the number.
C17_SizeIsTruncatedMeanOfAll ==
    (ppc = "done" /\ Len(targets) > 0) =>
        LET n == Len(targets)
            sum == SumSizes(targets)
            size == posts[1].size
        IN /\ Len(posts) = 1
           /\ size * n <= sum
           /\ sum < size * n + n

\* 50 of a failed target and 101 of a built one give 75
C17_Witness ==
    /\ ppc = "done"
    /\ Len(targets) = 2
    /\ ~targets[1].build /\ targets[1].image_size = 50
    /\ targets[2].build /\ targets[2].image_size = 101
    /\ posts[1].size = 75

\* C20: in the posted record no service has a build; a service that declared
\* one has as image docker.io/openhabx/{id}:{version} of the manifest and
\* its other fields as declared, a service that declared none is copied as
\* it is.
C20_PostedServicesCarryNoBuild ==
    ppc = "done" =>
        /\ Len(posts) = 1
        /\ DOMAIN posts[1].services = DOMAIN input_file.services
        /\ \A id \in DOMAIN input_file.services :
              LET declared == input_file.services[id]
                  posted == posts[1].services[id]
                  common == input_file.x_ohx_registry
              IN /\ ~posted.build.some
                 /\ declared.build.some =>
                       /\ posted.image =
                             Some("docker.io/openhabx/" \o common.id \o ":" \o common.version)
                       /\ posted.ports = declared.ports
                 /\ ~declared.build.some => posted = declared

\* "web" declared a build and no image, "db" an image and no build
C20_Witness ==
    /\ ppc = "done"
    /\ DOMAIN input_file.services = {"web", "db"}
    /\ input_file.services["web"].build.some
    /\ ~input_file.services["web"].image.some
    /\ ~input_file.services["db"].build.some
    /\ input_file.x_ohx_registry.version = "2.1"
    /\ posts[1].services["web"].image = Some("docker.io/openhabx/ohx-addon:2.1")
    /\ posts[1].services["db"].image = Some("redis:5")

(***************************************************************************)
(* Properties of the image size recorded by build_images                   *)
(***************************************************************************)
\* C18: after build_images every target that failed to build and was handed
\* in with image_size 0 still has image_size 0.
C18_FailedBuildKeepsSizeZero ==
    bpc \in {"upload", "done"} =>
        \A i \in 1..Len(targets) :
            (~targets[i].build /\ targets0[i].image_size = 0) =>
                targets[i].image_size = 0

\* C19: when inspect cannot be run or prints no integer for a target, the
\* target keeps the image_size it was handed in with, its build flag is the
\* exit status of its build, and the loop has gone on to the next target.
C19_FailedInspectKeepsSize ==
    \A k \in 1..Len(exited) :
        (exited[k].tool = "build" /\ exited[k].insp.kind # "size") =>
            LET i == exited[k].target
            IN /\ targets[i].image_size = targets0[i].image_size
               /\ targets[i].build = exited[k].ok
               /\ bpc = "build" => idx > i
               /\ bpc \in {"upload", "done"} =>
                     StartsOf("build") = [j \in 1..Len(targets) |-> j]

\* the first target, handed in with size 50, was built but inspect printed
\* no integer; the second target was built after it
C19_Witness ==
    /\ bpc = "upload"
    /\ Len(targets) = 2
    /\ targets0[1].image_size = 50
    /\ exited[1] = [tool |-> "build", target |-> 1, ok |-> TRUE,
                    insp |-> [kind |-> "garbage", size |-> 0]]
    /\ targets[1].image_size = 50
    /\ targets[1].build
    /\ StartsOf("build") = <<1, 2>>

\* C21: a call of post_to_registry that returns has sent one POST, and it
\* returns true only when that POST was answered with status 200; any other
\* status and a transport failure give false with no second POST.
C21_OnePostSuccessOnly200 ==
    /\ Len(posts) <= 1
    /\ Len(postAnswers) = Len(posts)
    /\ ppc = "done" =>
          /\ Len(posts) = 1
          /\ presult <=> postAnswers[1] = 200

\* the one POST was answered 500 and post_to_registry returned false
C21_Witness ==
    /\ ppc = "done"
    /\ Len(posts) = 1
    /\ postAnswers = <<500>>
    /\ ~presult

(***************************************************************************)
(* Sequencing of the external children                                     *)
(***************************************************************************)
\* the build and push children started so far, in order
ChildrenStarted == SelectSeq(invoked, LAMBDA e : e.tool \in {"build", "push"})

\* the number of build and push children started and not yet exited
InFlight == Len(ChildrenStarted) - Len(exited)

\* C22: at every moment at most one build or push child is in flight, and
\* while one is, the main flow has neither recorded the outcome of its
\* target nor run inspect for it nor started a child for a later target;
\* inspect has run exactly for the builds that have exited.
C22_OneChildAtATime ==
    /\ InFlight \in {0, 1}
    /\ (InFlight = 0) <=> (child = NoChild)
    /\ Len(SelectSeq(invoked, LAMBDA e : e.tool = "inspect"))
          = Len(SelectSeq(exited, LAMBDA e : e.tool = "build"))
    /\ InFlight = 1 =>
          LET c == ChildrenStarted[Len(ChildrenStarted)]
          IN /\ child = c
             /\ invoked[Len(invoked)] = c
             /\ ExitsOf(c.tool, c.target) = {}
             /\ c.tool = "build" =>
                   /\ targets[c.target].build = targets0[c.target].build
                   /\ targets[c.target].image_size = targets0[c.target].image_size
             /\ c.tool = "push" =>
                   targets[c.target].uploaded = targets0[c.target].uploaded

\* the build of the second target is in flight after the build of the first
\* has exited and its inspect has run
C22_Witness ==
    /\ bpc = "build"
    /\ child = [tool |-> "build", target |-> 2]
    /\ invoked = <<[tool |-> "build", target |-> 1],
                   [tool |-> "inspect", target |-> 1],
                   [tool |-> "build", target |-> 2]>>
    /\ Len(exited) = 1
    /\ targets[1].build

(***************************************************************************)
(* Properties of the output-drain tasks                                    *)
(***************************************************************************)
\* C23: the progress indicator is never written by two tasks at the same
\* time: at most one drain task is alive, a live drain task is the one of
\* the child the main flow is blocked on (so the main flow, which writes the
\* bar only when it is not blocked, never writes together with a drain
\* task), and no drain task has written a bar after its child exited and
\* the main flow went on.
C23_NoConcurrentProgressWriters ==
    /\ Cardinality(drains) <= 1
    /\ \A d \in drains : d = child
    /\ lateWrites = {}

(***************************************************************************)
(* Further properties of perform_login                                     *)
(***************************************************************************)
\* the session file holds nothing perform_login can refresh with: it is
\* missing, cannot be read or parsed, or its session has no refresh token
NothingToRefresh(file) ==
    \/ file.kind \in {"missing", "corrupt"}
    \/ file.kind = "session" /\ ~file.session.refresh_token.some

\* C24: with a session file that is missing, unreadable or unparseable, or a
\* session without a refresh token, perform_login does not stop: it sends no
\* refresh_token request and its first request is the one to /authorize.
\* (The file is as it was at the start until perform_login returns; what was
\* read from it is kept in cached.)
C24_NoSessionGoesToDeviceFlow ==
    /\ (lpc \in {"refresh", "authorize", "poll", "userinfo"}
            /\ NothingToRefresh(sessionFile)) =>
          /\ ~(cached.some /\ cached.v.refresh_token.some)
          /\ lpc # "refresh"
    /\ (lpc \notin {"start", "idle"}
            /\ ~(cached.some /\ cached.v.refresh_token.some)) =>
          /\ Len(requests) >= 1
          /\ requests[1] = "authorize"
          /\ \A k \in 1..Len(requests) : requests[k] # "token_refresh"

\* an unparseable session file, and a session without a refresh token, have
\* each led to /authorize as the first and only request so far
C24_Witness ==
    /\ lpc = "authorize"
    /\ requests = <<"authorize">>
    /\ \/ sessionFile = FileCorrupt
       \/ /\ sessionFile.kind = "session"
          /\ ~sessionFile.session.refresh_token.some
          /\ sessionFile.session.access_token_expires = 500

(***************************************************************************)
(* Further properties of the manifest validation                           *)
(***************************************************************************)
\* the manifest has the one service "api" with nothing but an image, and
\* has been validated
OneImageValidated ==
    /\ vpc = "validated"
    /\ DOMAIN manifest.services = {"api"}
    /\ manifest.services["api"].image.some
    /\ manifest.services["api"] =
          [EmptyService EXCEPT !.image = manifest.services["api"].image]

TheImage == manifest.services["api"].image.v

\* C26: an image reference of exactly two '/'-segments is accepted when the
\* first matches the registry pattern and the second the image-name pattern;
\* any other reference is accepted when the whole of it matches the
\* image-name pattern; a rejection names the service and is about the
\* registry address or the image name.
C26_ImageReferenceGrammar ==
    OneImageValidated =>
        /\ vresult.ok <=> WellFormedImage(TheImage)
        /\ ~vresult.ok =>
              /\ vresult.service = "api"
              /\ vresult.kind \in {"registry", "image"}

\* the verdicts of the five rules on a service, in the order image,
\* permissions, ports, depends_on, volumes
RuleVerdicts(id) ==
    LET service == manifest.services[id]
    IN <<CheckImage(id, service),
         CheckPermissions(id, service),
         CheckPorts(id, service),
         CheckDependsOn(manifest, id, service),
         CheckVolumes(id, service)>>

\* C27: validation returns one error, the first violation met: the services
\* are taken in the order the map yields them and, for each, the rules in
\* the order image, permissions (mandatory before optional), ports,
\* depends_on, volumes.  Every service visited before the one reported is
\* clean, every rule before the one reported is satisfied by the reported
\* service, and a manifest without a violation is accepted.
C27_FirstViolationReported ==
    (vpc = "validated" /\ DOMAIN manifest.services # {}) =>
        \A ofApi \in {IF "api" \in DOMAIN manifest.services
                       THEN RuleVerdicts("api") ELSE <<>>},
           ofWorker \in {IF "worker" \in DOMAIN manifest.services
                          THEN RuleVerdicts("worker") ELSE <<>>} :
            LET verdicts(id) == IF id = "api" THEN ofApi ELSE ofWorker
                clean(id) == \A r \in 1..5 : verdicts(id)[r].ok
            IN IF \A id \in DOMAIN manifest.services : clean(id)
               THEN vresult = Ok
               ELSE /\ ~vresult.ok
                    /\ \E k \in 1..Len(vorder), r \in 1..5 :
                          /\ \A j \in 1..(k - 1) : clean(vorder[j])
                          /\ \A q \in 1..(r - 1) : verdicts(vorder[k])[q].ok
                          /\ ~verdicts(vorder[k])[r].ok
                          /\ vresult = verdicts(vorder[k])[r]
                          /\ vresult.service = vorder[k]
                    /\ vresult.kind = "optional" =>
                          \A i \in 1..Len(manifest.services[vresult.service].permissions.v.mandatory) :
                              manifest.services[vresult.service].permissions.v.mandatory[i]
                                  \in addon_permissions

\* "api" breaks the image, permission, port and volume rules and "worker",
\* visited second, breaks them too: the one error is the image of "api"
C27_Witness ==
    /\ vpc = "validated"
    /\ vorder = <<"api", "worker">>
    /\ \A id \in {"api", "worker"} :
          /\ ~CheckImage(id, manifest.services[id]).ok
          /\ ~CheckPermissions(id, manifest.services[id]).ok
          /\ ~CheckPorts(id, manifest.services[id]).ok
          /\ ~CheckVolumes(id, manifest.services[id]).ok
    /\ vresult = Err("image", "api", <<"A", "p", "p">>)

(***************************************************************************)
(* Access token, termination of the poll loop, outcome matrix              *)
(***************************************************************************)
\* C28: a session returned by perform_login has the access token of a 200
\* answer of the token endpoint (refresh_token or device_code grant) got in
\* this call, never the access token read from the session file, be its
\* recorded expiry in the future or not.
C28_AccessTokenIsFresh ==
    (lpc = "done" /\ lresult.some) =>
        /\ \E k \in 1..Len(responses) :
              /\ responses[k].to \in {"token_refresh", "token_device"}
              /\ responses[k].status = 200
              /\ lresult.v.access_token = responses[k].token.access_token
        /\ cached.some => lresult.v.access_token # cached.v.access_token

\* the session file held an access token that expires at 500, the clock
\* reads less, and the returned session has the token of the refresh answer
C28_Witness ==
    /\ lpc = "done"
    /\ lresult.some
    /\ cached.some
    /\ cached.v.access_token = "at_old"
    /\ cached.v.access_token_expires = 500
    /\ now < 500
    /\ responses[1].to = "token_refresh"
    /\ responses[1].status = 200
    /\ lresult.v.access_token = "at_new"

\* the expires_in /authorize declared for the device code, 0 before
DeclaredLifetime ==
    LET a == SelectSeq(responses, LAMBDA r : r.to = "authorize" /\ r.status = 200)
    IN IF a = <<>> THEN 0 ELSE a[1].lifetime

\* every answer of the poll loop so far was authorization_pending
AllPending == \A i \in 1..Len(PollAnswers) : AuthorizationPending(PollAnswers[i])

\* C29: the poll loop terminates.  The number of device_code requests never
\* exceeds expires_in / 2 + 2, and once the loop is entered either some
\* answer is not authorization_pending or perform_login comes to its end
\* and returns no session.
C29_PollLoopTerminates ==
    /\ [](Sent("token_device") <= DeclaredLifetime \div PollSleep + 2)
    /\ (lpc = "poll") ~> (~AllPending \/ (lpc = "done" /\ ~lresult.some))

\* a device code of 4 seconds: the fourth pending answer ended the loop
C29_Witness ==
    /\ lpc = "done"
    /\ ~lresult.some
    /\ DeclaredLifetime = 4
    /\ Len(PollAnswers) = 4
    /\ AllPending

\* C30: when every target starts with build = false and uploaded = false,
\* each target has uploaded => build in every state of build_images
\* followed by upload_images.
C30_UploadedImpliesBuilt ==
    (\A i \in 1..Len(targets0) : ~targets0[i].build /\ ~targets0[i].uploaded) =>
        \A i \in 1..Len(targets) : targets[i].uploaded => targets[i].build

\* the first target was built and pushed, the second failed to build
C30_Witness ==
    /\ bpc = "done"
    /\ Len(targets) = 2
    /\ \A i \in 1..2 : ~targets0[i].build /\ ~targets0[i].uploaded
    /\ targets[1].build /\ targets[1].uploaded
    /\ ~targets[2].build /\ ~targets[2].uploaded

(***************************************************************************)
(* Properties of the run of the tool                                       *)
(***************************************************************************)
\* the positions in the log of what main did of one kind
LogPositions(kind) == {k \in 1..Len(mlog) : mlog[k] = kind}

\* C25: validation comes first and gates the run: when it fails or only
\* validation was asked for, main returns with the session file unread and
\* no request sent to the OAuth server or the registry; the registry cache
\* is looked at, and the registry fetched, only after the login has given a
\* session, and nothing is asked of the OAuth server after that.
C25_ValidationGatesThePipeline ==
    /\ mlog # <<>> => LogPositions("validate") = {1}
    /\ (mpc # "validate" /\ (~vresult.ok \/ mopt.validate_only)) =>
          /\ mpc = "end"
          /\ mlog = <<"validate">>
          /\ cached = NoSession
          /\ fetchLog = <<>>
    /\ \A k \in LogPositions("oauth") : \E j \in LogPositions("read_session") : j < k
    /\ \A k \in LogPositions("registry_cache") \cup LogPositions("registry_fetch") :
          /\ lresult.some
          /\ \A j \in LogPositions("oauth") \cup LogPositions("read_session") : j < k

\* only validation was asked for, the manifest is valid and was found: main
\* has returned after the validation
C25_Witness ==
    /\ mpc = "end"
    /\ mopt.validate_only
    /\ vresult.ok
    /\ mlog = <<"validate">>

(***************************************************************************)
(* Frame conditions                                                        *)
(***************************************************************************)
\* the fields of a target no operation writes
Identity(t) == <<t.filename, t.arch, t.image_name>>

\* C31: no step of build_images, upload_images or post_to_registry changes
\* the length or order of the list or a target's filename, arch or
\* image_name; a step of build_images leaves every uploaded flag as it was,
\* a step of upload_images every build flag and image_size, and
\* post_to_registry leaves the list and the manifest as they were.
C31_FrameConditions ==
    [][/\ Len(targets') = Len(targets)
       /\ \A i \in DOMAIN targets : Identity(targets'[i]) = Identity(targets[i])
       /\ bpc = "build" =>
             \A i \in DOMAIN targets : targets'[i].uploaded = targets[i].uploaded
       /\ bpc = "upload" =>
             \A i \in DOMAIN targets :
                /\ targets'[i].build = targets[i].build
                /\ targets'[i].image_size = targets[i].image_size
       /\ ppc = "start" =>
             /\ targets' = targets
             /\ input_file' = input_file]_vars

\* both loops have run over a list of two targets: the first was built,
\* sized and pushed, the push of the second failed
C31_Witness ==
    /\ bpc = "done"
    /\ ppc = "idle"
    /\ Len(targets) = 2
    /\ targets[1].build /\ targets[1].uploaded /\ ~targets0[1].uploaded
    /\ targets[1].image_size # targets0[1].image_size
    /\ targets[2].build /\ ~targets[2].uploaded /\ targets[2].image_size # 0

(***************************************************************************)
(* Publishing no target; the verdict of validation and the visiting order  *)
(***************************************************************************)
\* C32: with an empty list of targets post_to_registry aborts in the
\* division by the number of targets: nothing is posted, nothing is
\* answered, and the function does not return, neither true nor false.
C32_EmptyListAbortsBeforePost ==
    (ppc # "start" /\ Len(targets) = 0) =>
        /\ ppc = "panicked"
        /\ posts = <<>>
        /\ postAnswers = <<>>
        /\ ~presult

\* post_to_registry was called with no target and a manifest of two
\* services, and has aborted
C32_Witness ==
    /\ ppc = "panicked"
    /\ targets = <<>>
    /\ Cardinality(DOMAIN input_file.services) = 2

\* what open_validate_addons_file gives for the manifest in every order the
\* map of services can be visited in
VerdictsOfAllOrders ==
    {open_validate_addons_file(manifest, order) :
        order \in Orders(DOMAIN manifest.services)}

\* C33: whether a manifest is accepted does not depend on the order in
\* which its services are visited: every order gives Ok, or every order
\* gives an error, and the validation that ran gave one of these results.
C33_VerdictIndependentOfOrder ==
    vpc = "validated" =>
        \A all \in {VerdictsOfAllOrders} :
            /\ vresult \in all
            /\ \A r \in all : r.ok = vresult.ok

\* a manifest of two services was rejected, and the other order of visiting
\* them reports another violation
C33_Witness ==
    /\ vpc = "validated"
    /\ Len(vorder) = 2
    /\ ~vresult.ok
    /\ \E order \in Orders(DOMAIN manifest.services) :
          LET other == open_validate_addons_file(manifest, order)
          IN ~other.ok /\ other # vresult

====
